---- MODULE Spec2Model ----
(***************************************************************************)
(* Verification model of the servex request pipeline:                      *)
(*   - the chain executor executeHandlers (src/src/core/response.ts), in   *)
(*     its recursive form and in its loop form, and the middleware         *)
(*     dispatcher MiddlewareManager.execute (src/src/middlewares/index.ts) *)
(*   - the server core in the forms the repository holds: the queued form  *)
(*     (src/unnamed/part_017), the bundled form                            *)
(*     (src/benchmarks/servex-node.ts), the direct form                    *)
(*     (src/unnamed/part_016:1-228, src/src/index.ts:83-398) and the       *)
(*     adapter form (src/unnamed/part_016:230-358).                        *)
(* Handlers are modelled by what they do with next() and how they end.     *)
(***************************************************************************)
EXTENDS Integers, Sequences, FiniteSets, TLC

\* ------------------------------------------------------------------ bounds
MaxChain == 3
MaxPlugins == 2
MaxReq == 2

\* ------------------------------------------------------- values of the code
None == [status |-> 0, body |-> "", src |-> 0]

\* new Response("Internal Server Error", { status: 500 })
InternalServerError == [status |-> 500, body |-> "Internal Server Error", src |-> 0]

\* context.text("Not Found", 404)
NotFoundBadStatus(context) == [status |-> 200, body |-> "Not Found", src |-> 0]
notFoundHandler(context) == [status |-> 404, body |-> "Not Found", src |-> 0]

\* the Response a handler at position i builds and returns
HandlerResponse(i) == [status |-> 200, body |-> "ok", src |-> i]

\* HttpException.getResponse() of the exception thrown by the handler at i
getResponse(e) == [status |-> 403, body |-> "Forbidden", src |-> e.src]

NoErr == [kind |-> "none", src |-> 0]
HttpException(i) == [kind |-> "http", src |-> i]
PlainError(i) == [kind |-> "err", src |-> i]
\* new Error("next() called multiple times")
NextCalledTwice(i) == [kind |-> "nextTwice", src |-> i]

\* what a handler does: how it uses next(), and how it ends
NextModes == {"none", "await", "noawait", "twice"}
RetModes == {"void", "resp", "http", "err"}
Behaviours == {b \in [next : NextModes, ret : RetModes] :
                  b.next = "twice" => b.ret = "void"}

ExecVariants == {"recursive", "loop", "manager"}

RECURSIVE SeqsUpTo(_, _)
SeqsUpTo(S, n) ==
  IF n = 0 THEN {<<>>}
  ELSE LET shorter == SeqsUpTo(S, n - 1)
       IN shorter \cup {Append(s, x) : s \in {t \in shorter : Len(t) = n - 1}, x \in S}

VARIABLES
  execVariant,  \* which executor runs the chain
  handlers,     \* the handler list of the call
  phase,        \* "init", "running", "resolved", "rejected"
  pc,           \* per frame: "idle", "body", "await", "post", "done", "thrown"
  nextCalled,   \* per frame: the frame-scoped flag (recursive, loop)
  index,        \* MiddlewareManager.execute: highest dispatched index
  frameErr,     \* per frame: the exception it ended with
  response,     \* executeHandlers' local `response`
  result,       \* the Response executeHandlers resolved with
  rejection,    \* the error executeHandlers / execute rejected with
  defaultRan,   \* defaultHandler was called
  nextCalls,    \* observation: number of next() calls made by each frame
  invoked,      \* observation: number of times each handler was invoked
  returned,     \* observation: the handlers that returned a Response, in order
  log           \* observation: the pre/post blocks in the order they ran

VARIABLES
  serverVariant,  \* "queued", "bundled", "direct", "adapter"
  plugins,        \* the plugin list: how each onInit ends ("ok", "throw"), or
                  \* "async" for an onInit that awaits before it ends well
  constructed,    \* the constructor has returned: fetch can be called
  initPc,         \* "new", "invoke", "runAll", "awaitAll", "done"
  pluginPc,       \* per plugin: "registered", "running", "ready", "failed", or
                  \* "awaiting": onInit has handed a pending promise to a
                  \* caller that does not await it
  initLog,        \* observation: plugins in the order their onInit was invoked
  disposers,      \* ServeXPluginManager: the disposers collected so far
  errorLog,       \* observation: the plugins whose error console.error printed
  disposed,       \* observation: the disposers dispose() called, in order
  shutdown,       \* ServeXPluginManager.dispose() was called
  pluginResolved, \* ServeX.#pluginResolved
  items,          \* Queue.items (0 is a deleted slot)
  head,           \* Queue.head
  tail,           \* Queue.tail
  ticks,          \* callbacks handed to process.nextTick, not yet run
  arrived,        \* number of fetch calls so far; request k is the k-th call
  reqPc,          \* per request: "idle", "queued", "matched", "requested", "done", or
                  \* "chained": the chain has ended and nothing settles fetch
  viaQueue,       \* per request: it went through the plugin-barrier queue
  dispatchLog,    \* observation: requests in the order _dispatch matched them
  eventLog,       \* observation: the events emitted, in order
  chainOut,       \* per request: how executeHandlers settled
  fetchOut        \* per request: how fetch settled

serverVars == <<serverVariant, plugins, constructed, initPc, pluginPc,
                initLog, disposers, errorLog, disposed, shutdown, pluginResolved, items, head, tail, ticks,
                arrived, reqPc, viaQueue, dispatchLog, eventLog, chainOut, fetchOut>>

chainVars == <<execVariant, handlers, phase, pc, nextCalled, index, frameErr,
               response, result, rejection, defaultRan, nextCalls, invoked,
               returned, log>>

VARIABLES
  currentScope,   \* scope.ts: the module-level currentScope ("scope" or "null")
  scopeContext,   \* the `context` field of the server's Scope: 0 is null,
                  \* k the Context made for request k
  scopePc,        \* per request: "idle", "parsing", "running", "done"
  routeMatched,   \* per request: the router matched a route
  ambient         \* observation: what the ambient accessor last gave the
                  \* handler of each request (see Access)

scopeVars == <<currentScope, scopeContext, scopePc, routeMatched, ambient>>

VARIABLES
  routes,           \* RegExpRouter.#routes: method -> path -> handlers
  middleware,       \* RegExpRouter.#middleware: method -> wildcard path -> handlers
  matcherCache,     \* RegExpRouter.#matcherCache: method -> matcher
  compiledMatchers, \* RegExpRouter.#compiledMatchers
  addCalls,         \* number of add() calls so far; the k-th call adds handler k
  registered,       \* observation: per add() call the <<method, path>> it was given
  lastAdd,          \* observation: how the last add() call ended
  matchCalls,       \* number of match() calls so far
  lastMatch         \* observation: the handlers the last match() call returned

regexpVars == <<routes, middleware, matcherCache, compiledMatchers, addCalls,
                registered, lastAdd, matchCalls, lastMatch>>

VARIABLES
  routerType,   \* RouterType of the RouterAdapter: "TRIE" or "RADIX"
  root,         \* the segment nodes, keyed by the child keys that lead from
                \* the root node to them
  registry,     \* #routes: the route descriptors, in insertion order
  routeData,    \* the data of each descriptor of #routes
  addLog,       \* observation: the descriptor given to each addRoute() call
  pushLog,      \* observation: the path and the middleware given to each
                \* pushMiddlewares() call, and the number of addRoute()
                \* calls made before it
  addOutcome    \* observation: "added", "ignored" (returned early) or
                \* "TypeError", for the last addRoute() call

routerVars == <<routerType, root, registry, routeData, addLog, pushLog, addOutcome>>

VARIABLES
  emitVariant,  \* EventManager.emit: "parallel" (Promise.all) or "serial" (for/await)
  events,       \* EventManager.#events.get("server:request"): what each
                \* subscriber does when called ("ok", "throw", "reject")
  emitCalls,    \* number of emit("server:request") calls so far
  lastEmit      \* observation: the subscribers the last emit() had, those it
                \* invoked, how it settled, and the status fetch answered with

eventVars == <<emitVariant, events, emitCalls, lastEmit>>

VARIABLES
  splitCookies,     \* the runtime's Headers.forEach gives each Set-Cookie value
                    \* on its own (or all of them joined, as for other names)
  responseHeaders,  \* Context.#response.headers: name -> the values appended
  headerCalls,      \* number of setHeaders / setCookie calls so far
  built             \* observation: the last builder called, the headers the
                    \* Context held when it was called and those of its Response

contextVars == <<splitCookies, responseHeaders, headerCalls, built>>

VARIABLES
  body,        \* Context.#body: "undefined", or what it holds
  bodyUsed,    \* the body of the raw Request has been consumed
  bodyReads,   \* number of times the body of the raw Request was read
  bodyCalls    \* per formData() / urlEncoded() call: the accessor, where
               \* the call is ("reading", "done", "failed") and its value

bodyVars == <<body, bodyUsed, bodyReads, bodyCalls>>

VARIABLES
  corsOpts,     \* the options of cors(options), merged over the defaults
  corsReq,      \* the request: its method and the headers cors reads
  corsHeaders,  \* ctx.res.headers: name -> value
  corsOut       \* observation: how the middleware ended, the status of the
                \* Response it returned and whether it called next()

corsVars == <<corsOpts, corsReq, corsHeaders, corsOut>>

vars == <<chainVars, serverVars, scopeVars, regexpVars, routerVars, eventVars,
          contextVars, bodyVars, corsVars>>

N == Len(handlers)
Frames == 1..N

\* ---------------------------------------------------------------- helpers
\* "getResponse" in error
handleErrorsAlwaysThrow(error) ==
  [shouldThrow |-> TRUE, response |-> InternalServerError]
handleErrorsGracefully(error) ==
  IF error.kind = "http"
    THEN [shouldThrow |-> FALSE, response |-> getResponse(error)]
    ELSE [shouldThrow |-> TRUE, response |-> InternalServerError]


\* the frame-scoped check that refuses a second next():
\*   executeHandlers: `if (nextCalled) throw`; MiddlewareManager: `if (i <= index) throw`
\* (index is kept 1-based here: the code's dispatch(i) is frame i + 1)
handleNextNoGuard(i) == FALSE
handleNextThrows(i) ==
  IF execVariant = "manager" THEN i + 1 <= index ELSE nextCalled[i]

\* `await invokeHandler(index + 1)` / `await dispatch(i + 1)` has settled;
\* the loop form's handleNext invokes nothing and settles at once
ChildSettled(i) ==
  IF execVariant = "loop" \/ i + 1 > N THEN TRUE
  ELSE pc[i + 1] \in {"done", "thrown"}

ChildThrew(i) ==
  IF execVariant = "loop" \/ i + 1 > N THEN FALSE
  ELSE pc[i + 1] = "thrown"

\* `const result = await handler(...); if (result instanceof Response) response = result`:
\* the slot after the handler at i has ended as b says
recordResultKeepsFirst(b, i, slot) ==
  IF b.ret = "resp" /\ slot = None THEN HandlerResponse(i) ELSE slot
recordResultVoidClears(b, i, slot) ==
  IF b.ret = "resp" THEN HandlerResponse(i) ELSE None
recordResult(b, i, slot) ==
  IF b.ret = "resp" THEN HandlerResponse(i) ELSE slot

\* the handler at position i starts running: its code before next() runs
Invoke(i, pc0, invoked0, log0) ==
  IF i <= N
    THEN /\ pc' = [pc0 EXCEPT ![i] = "body"]
         /\ invoked' = [invoked0 EXCEPT ![i] = @ + 1]
         /\ log' = Append(log0, <<"pre", i>>)
    ELSE /\ pc' = pc0
         /\ invoked' = invoked0
         /\ log' = log0

\* ---------------------------------------------------------------- actions
ChainInit ==
  /\ execVariant \in ExecVariants
  /\ handlers \in SeqsUpTo(Behaviours, MaxChain)
  /\ phase = "init"
  /\ pc = [i \in 1..Len(handlers) |-> "idle"]
  /\ nextCalled = [i \in 1..Len(handlers) |-> FALSE]
  /\ index = 0
  /\ frameErr = [i \in 1..Len(handlers) |-> NoErr]
  /\ response = None
  /\ result = None
  /\ rejection = NoErr
  /\ defaultRan = FALSE
  /\ nextCalls = [i \in 1..Len(handlers) |-> 0]
  /\ invoked = [i \in 1..Len(handlers) |-> 0]
  /\ returned = <<>>
  /\ log = <<>>

\* executeHandlers / execute is called: invokeHandler(0), the loop's first
\* iteration, dispatch(0)
ExecStart ==
  /\ phase = "init"
  /\ phase' = "running"
  /\ index' = IF execVariant = "manager" THEN 1 ELSE index
  /\ Invoke(1, pc, invoked, log)
  /\ UNCHANGED <<execVariant, handlers, nextCalled, frameErr, response,
                 result, rejection, defaultRan, nextCalls, returned>>

\* the handler at i calls next(): its first call, or the second call of a
\* handler that calls it twice
CallNext(i) ==
  /\ \/ pc[i] = "body" /\ handlers[i].next # "none"
     \/ pc[i] = "post" /\ handlers[i].next = "twice" /\ nextCalls[i] = 1
  /\ nextCalls' = [nextCalls EXCEPT ![i] = @ + 1]
  /\ IF handleNextThrows(i)
       THEN /\ pc' = [pc EXCEPT ![i] = "thrown"]
            /\ frameErr' = [frameErr EXCEPT ![i] = NextCalledTwice(i)]
            /\ UNCHANGED <<nextCalled, index, invoked, log>>
       ELSE /\ nextCalled' = IF execVariant = "manager" THEN nextCalled
                                ELSE [nextCalled EXCEPT ![i] = TRUE]
            /\ index' = IF execVariant = "manager" THEN i + 1 ELSE index
            /\ LET mine == IF handlers[i].next = "noawait" THEN "post" ELSE "await"
                   pc0 == [pc EXCEPT ![i] = mine]
               IN IF execVariant = "loop"
                    THEN pc' = pc0 /\ UNCHANGED <<invoked, log>>
                    ELSE Invoke(i + 1, pc0, invoked, log)
            /\ UNCHANGED frameErr
  /\ UNCHANGED <<execVariant, handlers, phase, response, result, rejection,
                 defaultRan, returned>>

\* `await next()` returns in the handler at i, or rethrows what the rest of
\* the chain threw
Resume(i) ==
  /\ pc[i] = "await"
  /\ ChildSettled(i)
  /\ IF ChildThrew(i)
       THEN /\ pc' = [pc EXCEPT ![i] = "thrown"]
            /\ frameErr' = [frameErr EXCEPT ![i] = frameErr[i + 1]]
       ELSE /\ pc' = [pc EXCEPT ![i] = "post"]
            /\ UNCHANGED frameErr
  /\ UNCHANGED <<execVariant, handlers, phase, nextCalled, index, response,
                 result, rejection, defaultRan, nextCalls, invoked, returned, log>>

\* the handler at i runs its code after next() (if it called next) and ends:
\* returns nothing, returns a Response, or throws
Return(i) ==
  /\ \/ pc[i] = "body" /\ handlers[i].next = "none"
     \/ pc[i] = "post" /\ ~(handlers[i].next = "twice" /\ nextCalls[i] = 1)
  /\ LET b == handlers[i]
         log0 == IF b.next = "none" THEN log ELSE Append(log, <<"post", i>>)
         end == IF b.ret \in {"http", "err"} THEN "thrown" ELSE "done"
         pc0 == [pc EXCEPT ![i] = end]
         continues == execVariant = "loop" /\ b.ret = "void"
     IN /\ frameErr' = [frameErr EXCEPT ![i] =
                           IF b.ret = "http" THEN HttpException(i)
                           ELSE IF b.ret = "err" THEN PlainError(i) ELSE @]
        /\ response' = IF execVariant = "manager" THEN response
                        ELSE recordResult(b, i, response)
        /\ returned' = IF b.ret = "resp" THEN Append(returned, i) ELSE returned
        \* the loop form goes on to the next handler unless it got a Response
        /\ IF continues
             THEN Invoke(i + 1, pc0, invoked, log0)
             ELSE pc' = pc0 /\ log' = log0 /\ UNCHANGED invoked
  /\ UNCHANGED <<execVariant, handlers, phase, nextCalled, index, result,
                 rejection, defaultRan, nextCalls>>

\* the frame whose end ends the chain, 0 if the chain has not ended
\* (the chain of an empty handler list has ended at once)
LoopEnd ==
  IF \E i \in Frames : pc[i] = "thrown"
    THEN CHOOSE i \in Frames : pc[i] = "thrown"
  ELSE IF \E i \in Frames : pc[i] = "done" /\ (handlers[i].ret = "resp" \/ i = N)
    THEN CHOOSE i \in Frames : pc[i] = "done" /\ (handlers[i].ret = "resp" \/ i = N)
  ELSE 0

ChainEnd ==
  IF execVariant = "loop" THEN LoopEnd
  ELSE IF N > 0 /\ pc[1] \in {"done", "thrown"} THEN 1 ELSE 0

\* the chain has unwound to executeHandlers / execute: error policy, default
\* handler, and the value the call settles with
Settle ==
  /\ phase = "running"
  /\ (N = 0 \/ ChainEnd # 0)
  /\ LET e == IF N = 0 THEN NoErr ELSE frameErr[ChainEnd]
         threw == N > 0 /\ pc[ChainEnd] = "thrown"
         h == handleErrorsGracefully(e)
     IN IF execVariant = "manager"
          THEN /\ phase' = IF threw THEN "rejected" ELSE "resolved"
               /\ rejection' = IF threw THEN e ELSE NoErr
               /\ UNCHANGED <<response, result, defaultRan>>
          ELSE IF threw
            THEN /\ phase' = IF h.shouldThrow THEN "rejected" ELSE "resolved"
                 /\ rejection' = IF h.shouldThrow THEN e ELSE NoErr
                 /\ result' = IF h.shouldThrow THEN None ELSE h.response
                 /\ UNCHANGED <<response, defaultRan>>
            ELSE /\ phase' = "resolved"
                 /\ defaultRan' = (response = None)
                 /\ response' = IF response = None THEN notFoundHandler(handlers) ELSE response
                 /\ result' = response'
                 /\ UNCHANGED rejection
  /\ UNCHANGED <<execVariant, handlers, pc, nextCalled, index, frameErr,
                 nextCalls, invoked, returned, log>>

ChainNext ==
  \/ ExecStart
  \/ \E i \in Frames : CallNext(i)
  \/ \E i \in Frames : Resume(i)
  \/ \E i \in Frames : Return(i)
  \/ Settle

\* ------------------------------------------------- executeHandlers, as run
\* by the server for handler lists in which every next() is awaited

\* how the handler at i ends, given the response slot it found
OwnEnd(b, i, slot) ==
  CASE b.ret = "void" -> [resp |-> slot, err |-> NoErr]
    [] b.ret = "resp" -> [resp |-> HandlerResponse(i), err |-> NoErr]
    [] b.ret = "http" -> [resp |-> slot, err |-> HttpException(i)]
    [] b.ret = "err" -> [resp |-> slot, err |-> PlainError(i)]

RECURSIVE invokeHandler(_, _, _)
invokeHandler(hs, i, slot) ==
  IF i > Len(hs) THEN [resp |-> slot, err |-> NoErr]
  ELSE LET b == hs[i]
       IN IF b.next = "none" THEN OwnEnd(b, i, slot)
          ELSE LET child == invokeHandler(hs, i + 1, slot)
               IN IF child.err # NoErr THEN child
                  ELSE IF b.next = "twice"
                    THEN [resp |-> child.resp, err |-> NextCalledTwice(i)]
                  ELSE OwnEnd(b, i, child.resp)

RECURSIVE handlerLoop(_, _, _)
handlerLoop(hs, i, slot) ==
  IF i > Len(hs) THEN [resp |-> slot, err |-> NoErr]
  ELSE LET b == hs[i]
           own == OwnEnd(b, i, slot)
       IN IF b.next = "twice" THEN [resp |-> slot, err |-> NextCalledTwice(i)]
          ELSE IF own.err # NoErr \/ b.ret = "resp" THEN own
          ELSE handlerLoop(hs, i + 1, slot)

executeHandlers(hs, v) ==
  LET run == IF v = "loop" THEN handlerLoop(hs, 1, None) ELSE invokeHandler(hs, 1, None)
      h == handleErrorsGracefully(run.err)
  IN IF run.err # NoErr
       THEN IF h.shouldThrow
              THEN [kind |-> "rejected", resp |-> None, err |-> run.err]
              ELSE [kind |-> "resolved", resp |-> h.response, err |-> run.err]
       ELSE [kind |-> "resolved", err |-> NoErr,
             resp |-> IF run.resp = None THEN notFoundHandler(hs) ELSE run.resp]

Pending == [kind |-> "pending", resp |-> None, err |-> NoErr]

\* ------------------------------------------------------------------ server
ServerVariants == {"queued", "bundled", "direct", "adapter"}
PluginKinds == {"ok", "throw"}

Middleware == [next |-> "await", ret |-> "void"]
Ends(r) == [next |-> "none", ret |-> r]
\* the handler lists a request can be matched to
ServerChains == {<<>>, <<Middleware, Ends("resp")>>, <<Middleware, Ends("http")>>,
                 <<Middleware, Ends("err")>>}

HasBarrier == serverVariant \in {"queued", "bundled"}
\* the forms whose dispatch calls emit ("queued" has the calls commented out)
Emits == serverVariant \in {"bundled", "direct"}

NP == Len(plugins)
Requests == 1..MaxReq

\* Queue: the head/tail form of "queued", the push/pop form of "bundled"
TheQueue == [items |-> items, head |-> head, tail |-> tail]

enqueue(q, fn) ==
  IF serverVariant = "bundled"
    THEN [q EXCEPT !.items = Append(@, fn)]
    ELSE [q EXCEPT !.items = IF q.tail + 1 <= Len(@)
                               THEN [@ EXCEPT ![q.tail + 1] = fn]
                               ELSE Append(@, fn),
                   !.tail = @ + 1]

isEmpty(q) ==
  IF serverVariant = "bundled" THEN Len(q.items) = 0 ELSE q.head = q.tail

\* the function dequeue returns, and the queue it leaves
dequeue(q) ==
  IF serverVariant = "bundled"
    THEN [fn |-> q.items[Len(q.items)],
          q |-> [q EXCEPT !.items = SubSeq(@, 1, Len(@) - 1)]]
    ELSE LET h1 == q.head + 1
             emptied == h1 = q.tail
         IN [fn |-> q.items[q.head + 1],
             q |-> [items |-> [q.items EXCEPT ![q.head + 1] = 0],
                    head |-> IF emptied THEN 0 ELSE h1,
                    tail |-> IF emptied THEN 0 ELSE q.tail]]

\* runAll: the callbacks in the order it hands them to process.nextTick,
\* and the queue it leaves
RECURSIVE runAll(_)
runAll(q) ==
  IF isEmpty(q) THEN [fns |-> <<>>, q |-> q]
  ELSE LET d == dequeue(q)
           rest == runAll(d.q)
       IN [fns |-> <<d.fn>> \o rest.fns, q |-> rest.q]

\* dispatch: `if (!this.#pluginResolved)` the request is put in the queue
DeferNever == FALSE
Defer == HasBarrier /\ ~pluginResolved

\* invokePlugins: the catch block of the loop prints the error of plugin k
catchSilent(k) == errorLog
catchLogs(k) == Append(errorLog, k)

\* dispose(): `for (const disposer of this.#disposers) disposer()`
\* in the order of the array, which is the order of registration
disposeReversed(ds) == [i \in 1..Len(ds) |-> ds[Len(ds) + 1 - i]]
disposeOrder(ds) == ds

\* invokePlugins: the plugin the loop goes on with
NextPluginSkips(k) == k + 2
NextPlugin(k) == k + 1

ServerIdle ==
  /\ constructed = FALSE
  /\ initPc = "new"
  /\ pluginPc = [k \in 1..Len(plugins) |-> "registered"]
  /\ initLog = <<>>
  /\ disposers = <<>>
  /\ errorLog = <<>>
  /\ disposed = <<>>
  /\ shutdown = FALSE
  /\ pluginResolved = FALSE
  /\ items = <<>>
  /\ head = 0
  /\ tail = 0
  /\ ticks = <<>>
  /\ arrived = 0
  /\ reqPc = [r \in Requests |-> "idle"]
  /\ viaQueue = [r \in Requests |-> FALSE]
  /\ dispatchLog = <<>>
  /\ eventLog = <<>>
  /\ chainOut = [r \in Requests |-> Pending]
  /\ fetchOut = [r \in Requests |-> Pending]

ServerInit ==
  /\ serverVariant \in ServerVariants
  /\ plugins \in SeqsUpTo(PluginKinds, MaxPlugins)
  /\ serverVariant = "adapter" => plugins = <<>>
  /\ ServerIdle

\* the plugin at k has its onInit invoked
StartPlugin(k, pluginPc0) ==
  /\ pluginPc' = [pluginPc0 EXCEPT ![k] = "running"]
  /\ initLog' = Append(initLog, k)

\* new ServeX(options) / createServer(options): runs up to the first await
Construct ==
  /\ initPc = "new"
  /\ IF NP = 0 \/ serverVariant = "adapter"
       THEN /\ initPc' = IF HasBarrier THEN "runAll" ELSE "done"
            /\ constructed' = TRUE
            /\ UNCHANGED <<pluginPc, initLog>>
       ELSE /\ initPc' = "invoke"
            \* the direct form calls every onInit inside the constructor
            /\ constructed' = (serverVariant # "direct")
            /\ StartPlugin(1, pluginPc)
  /\ UNCHANGED <<serverVariant, plugins, disposers, errorLog, disposed, shutdown, pluginResolved,
                 items, head, tail, ticks, arrived, reqPc, viaQueue,
                 dispatchLog, eventLog, chainOut, fetchOut>>

\* the onInit of plugin k ends (returns a disposer, or throws and is logged);
\* the loop of invokePlugins goes on with the next plugin
PluginSettle(k) ==
  /\ initPc = "invoke"
  /\ pluginPc[k] = "running"
  /\ LET ok == plugins[k] # "throw"
         pluginPc0 == [pluginPc EXCEPT ![k] = IF ok THEN "ready" ELSE "failed"]
         nxt == NextPlugin(k)
     IN /\ disposers' = IF ok THEN Append(disposers, k) ELSE disposers
        \* catch (error) { console.error(`[ServeX: ${name}]`, error) }
        /\ errorLog' = IF ok THEN errorLog ELSE catchLogs(k)
        /\ IF nxt <= NP
             THEN /\ StartPlugin(nxt, pluginPc0)
                  /\ UNCHANGED <<initPc, constructed>>
             ELSE /\ pluginPc' = pluginPc0
                  /\ initPc' = IF HasBarrier THEN "runAll" ELSE "done"
                  /\ constructed' = TRUE
                  /\ UNCHANGED initLog
  /\ UNCHANGED <<serverVariant, plugins, pluginResolved, items, head,
                 tail, ticks, arrived, reqPc, viaQueue, dispatchLog, eventLog,
                 chainOut, fetchOut, disposed, shutdown>>

\* after invokePlugins: "queued" runs the queue and then awaits the ticks;
\* "bundled" sets #pluginResolved and then runs the queue
RunAll ==
  /\ initPc = "runAll"
  /\ LET ran == runAll(TheQueue)
     IN /\ ticks' = ticks \o ran.fns
        /\ items' = ran.q.items
        /\ head' = ran.q.head
        /\ tail' = ran.q.tail
  /\ pluginResolved' = (serverVariant = "bundled")
  /\ initPc' = IF serverVariant = "bundled" THEN "done" ELSE "awaitAll"
  /\ UNCHANGED <<serverVariant, plugins, constructed, pluginPc,
                 initLog, disposers, errorLog, disposed, shutdown, arrived, reqPc, viaQueue, dispatchLog,
                 eventLog, chainOut, fetchOut>>

\* #initPlugins of "queued": `await Promise.all(promises)` is over
InitDone ==
  /\ initPc = "awaitAll"
  /\ ticks = <<>>
  /\ pluginResolved' = TRUE
  /\ initPc' = "done"
  /\ UNCHANGED <<serverVariant, plugins, constructed, pluginPc,
                 initLog, disposers, errorLog, disposed, shutdown, items, head, tail, ticks, arrived, reqPc,
                 viaQueue, dispatchLog, eventLog, chainOut, fetchOut>>

\* _dispatch / dispatch / baseFetch starts for request r: the route match
DispatchStart(r, reqPc0) ==
  /\ reqPc' = [reqPc0 EXCEPT ![r] = "matched"]
  /\ dispatchLog' = Append(dispatchLog, r)

\* fetch(request) is called
Fetch ==
  /\ constructed
  /\ arrived < MaxReq
  /\ arrived' = arrived + 1
  /\ LET r == arrived + 1
     IN IF Defer
          THEN /\ LET q == enqueue(TheQueue, r)
                  IN items' = q.items /\ head' = q.head /\ tail' = q.tail
               /\ reqPc' = [reqPc EXCEPT ![r] = "queued"]
               /\ viaQueue' = [viaQueue EXCEPT ![r] = TRUE]
               /\ UNCHANGED dispatchLog
          ELSE /\ DispatchStart(r, reqPc)
               /\ UNCHANGED <<items, head, tail, viaQueue>>
  /\ UNCHANGED <<serverVariant, plugins, constructed, initPc,
                 pluginPc, initLog, disposers, errorLog, disposed, shutdown, pluginResolved, ticks, eventLog,
                 chainOut, fetchOut>>

\* the oldest process.nextTick callback runs: the queued function starts _dispatch
Tick ==
  /\ ticks # <<>>
  /\ ticks' = Tail(ticks)
  /\ DispatchStart(Head(ticks), reqPc)
  /\ UNCHANGED <<serverVariant, plugins, constructed, initPc,
                 pluginPc, initLog, disposers, errorLog, disposed, shutdown, pluginResolved, items, head, tail,
                 arrived, viaQueue, eventLog, chainOut, fetchOut>>

\* `await this.#events.emit("server:request", ...)`, after the body was parsed
EmitRequest(r) ==
  /\ Emits
  /\ reqPc[r] = "matched"
  /\ reqPc' = [reqPc EXCEPT ![r] = "requested"]
  /\ eventLog' = Append(eventLog, <<"server:request", r>>)
  /\ UNCHANGED <<serverVariant, plugins, constructed, initPc,
                 pluginPc, initLog, disposers, errorLog, disposed, shutdown, pluginResolved, items, head, tail,
                 ticks, arrived, viaQueue, dispatchLog, chainOut, fetchOut>>

\* what fetch settles with once dispatch has settled:
\*   the ServeX forms `return await this.dispatch(...)` inside try/catch;
\*   the adapter form `return baseFetch.call(...)` without await, so that a
\*   rejection passes the catch block
FetchResult(out) ==
  IF out.kind = "resolved" THEN [kind |-> "resolved", resp |-> out.resp, err |-> NoErr]
  ELSE IF serverVariant = "adapter"
    THEN [kind |-> "rejected", resp |-> None, err |-> out.err]
  ELSE [kind |-> "resolved", resp |-> InternalServerError, err |-> NoErr]

\* a queued request is settled by `_dispatch(...).then(resolve)` /
\* `resolve(await this._dispatch(...))`: nothing settles it when _dispatch rejects
NeverSettles(r, out) == viaQueue[r] /\ out.kind = "rejected"

\* executeHandlers (in the form v) runs the matched handlers hs; if it
\* resolves, the emitting forms emit server:response; dispatch returns or
\* throws and the promise fetch returned settles
RunChain(r, hs, v) ==
  /\ reqPc[r] = IF Emits THEN "requested" ELSE "matched"
  /\ LET out == executeHandlers(hs, v)
     IN /\ chainOut' = [chainOut EXCEPT ![r] = out]
        /\ eventLog' = IF Emits /\ out.kind = "resolved"
                         THEN Append(eventLog, <<"server:response", r>>)
                         ELSE eventLog
        /\ IF NeverSettles(r, out)
             THEN /\ reqPc' = [reqPc EXCEPT ![r] = "chained"]
                  /\ UNCHANGED fetchOut
             ELSE /\ reqPc' = [reqPc EXCEPT ![r] = "done"]
                  /\ fetchOut' = [fetchOut EXCEPT ![r] = FetchResult(out)]
  /\ UNCHANGED <<serverVariant, plugins, constructed, initPc,
                 pluginPc, initLog, disposers, errorLog, disposed, shutdown, pluginResolved, items, head, tail,
                 ticks, arrived, viaQueue, dispatchLog>>

\* ServeXPluginManager.dispose(), the last call made on the server:
\* `this.#disposers = disposers` is the last statement of invokePlugins, so
\* that a dispose() before the loop is over finds the empty array
Dispose ==
  /\ constructed
  /\ shutdown' = TRUE
  /\ disposed' = IF initPc \in {"new", "invoke"} THEN <<>> ELSE disposeOrder(disposers)
  /\ UNCHANGED <<serverVariant, plugins, constructed, initPc, pluginPc,
                 initLog, disposers, errorLog, pluginResolved, items, head, tail,
                 ticks, arrived, reqPc, viaQueue, dispatchLog, eventLog,
                 chainOut, fetchOut>>

Running ==
  \/ Construct
  \/ \E k \in 1..NP : PluginSettle(k)
  \/ RunAll
  \/ InitDone
  \/ Fetch
  \/ Tick
  \/ \E r \in Requests : EmitRequest(r)
  \/ \E r \in Requests, hs \in ServerChains, v \in {"recursive", "loop"} : RunChain(r, hs, v)

ServerNext ==
  \/ ~shutdown /\ Running
  \/ ~shutdown /\ Dispose

\* ----------------------------------------------------------- ambient scope
\* results of an ambient accessor call: the request whose Context it read, or
NotCalled == 0
NoScopeFound == -1      \* getCurrentScope threw Error("No scope found")
NullContext == -2       \* scope.context is null: reading a field of it throws

\* createScope(router) in the constructor: `currentScope = scope`
ScopeIdle ==
  /\ currentScope = "scope"
  /\ scopeContext = 0
  /\ scopePc = [r \in Requests |-> "idle"]
  /\ routeMatched = [r \in Requests |-> FALSE]
  /\ ambient = [r \in Requests |-> NotCalled]

\* fetch(request) -> dispatch: the route match, up to `await parseRequestBody`
ScopeFetch(r) ==
  /\ scopePc[r] = "idle"
  /\ scopePc' = [scopePc EXCEPT ![r] = "parsing"]
  /\ \E m \in BOOLEAN : routeMatched' = [routeMatched EXCEPT ![r] = m]
  /\ UNCHANGED <<currentScope, scopeContext, ambient>>

\* the body is parsed; for a matched route `scope.context = context;
\* setScope(scope)`; then the chain starts
ScopeBind(r) ==
  /\ scopePc[r] = "parsing"
  /\ scopePc' = [scopePc EXCEPT ![r] = "running"]
  /\ IF routeMatched[r]
       THEN scopeContext' = r /\ currentScope' = "scope"
       ELSE UNCHANGED <<scopeContext, currentScope>>
  /\ UNCHANGED <<routeMatched, ambient>>

\* params() / request() / context(): getCurrentScope().context
getCurrentContext ==
  IF currentScope = "null" THEN NoScopeFound
  ELSE IF scopeContext = 0 THEN NullContext
  ELSE scopeContext

\* a handler of request r calls an ambient accessor
Access(r) ==
  /\ scopePc[r] = "running"
  /\ ambient' = [ambient EXCEPT ![r] = getCurrentContext]
  /\ UNCHANGED <<currentScope, scopeContext, scopePc, routeMatched>>

\* the chain of r has ended and dispatch has settled: fetch's
\* `finally { disposeScope() }`
ScopeDispose(r) ==
  /\ scopePc[r] = "running"
  /\ scopePc' = [scopePc EXCEPT ![r] = "done"]
  /\ currentScope' = "null"
  /\ UNCHANGED <<scopeContext, routeMatched, ambient>>

ScopeNext ==
  \/ \E r \in Requests : ScopeFetch(r)
  \/ \E r \in Requests : ScopeBind(r)
  \/ \E r \in Requests : Access(r)
  \/ \E r \in Requests : ScopeDispose(r)

\* ------------------------------------------------------------ RegExpRouter
MaxAdds == 3
MaxMatches == 2

METHOD_NAME_ALL == "ALL"
\* the methods and paths given to add(), and the paths given to match()
AddMethods == {METHOD_NAME_ALL, "GET"}
MatchMethods == {"GET", "POST"}
AddPaths == {"/", "/a/x", "/a/*", "*", "/*"}
MatchPaths == {"/", "/a/x"}

\* Map: a function whose domain is the set of keys
EmptyMap == [k \in {} |-> <<>>]
Has(map, k) == k \in DOMAIN map
MapSet(map, k, v) == [x \in DOMAIN map \cup {k} |-> IF x = k THEN v ELSE map[x]]
\* `this.#middleware = undefined; this.#routes = undefined`
Undefined == EmptyMap

\* WILDCARD_END.test(path)
WILDCARD_END(path) == path \in {"*", "/*", "/a/*"}
\* STATIC_PATH_CHECK.test(path)
STATIC_PATH_CHECK(path) == path \in {"*", "/*", "/a/*"}
\* path.length
PathLength(path) ==
  CASE path = "*" -> 1 [] path = "/" -> 1 [] path = "/*" -> 2 [] OTHER -> 4
\* `path = path === "/*" ? "*" : path`
NormalizePath(path) == IF path = "/*" THEN "*" ELSE path
\* buildWildcardRegExp(k).test(p): the RegExp of "*" is the empty pattern,
\* that of "/a/*" is ^/a(?:|/.*)$, that of a path without "*" is ^path$
buildWildcardRegExpTest(k, p) ==
  IF k = "*" THEN TRUE
  ELSE IF k = "/a/*" THEN p \in {"/a/x", "/a/*"}
  ELSE p = k
\* the first key of `[...keys].sort((a, b) => b.length - a.length)`
LongestKey(ks) == CHOOSE k \in ks : \A j \in ks : PathLength(j) <= PathLength(k)

\* findMiddleware: the handlers of the longest wildcard key that matches path
findMiddleware(mmap, path) ==
  LET ks == {k \in DOMAIN mmap : buildWildcardRegExpTest(k, path)}
  IN IF ks = {} THEN [found |-> FALSE, handlers |-> <<>>]
     ELSE [found |-> TRUE, handlers |-> mmap[LongestKey(ks)]]

\* findMiddleware(own, path) || findMiddleware(all, path) || []
MiddlewareFor(own, all, path) ==
  IF findMiddleware(own, path).found THEN findMiddleware(own, path).handlers
  ELSE findMiddleware(all, path).handlers

\* add(): `if (!middleware.has(method))` both maps get a copy of ALL's entries
InitMethod(hmap, method) ==
  IF Has(middleware, method) THEN hmap ELSE MapSet(hmap, method, hmap[METHOD_NAME_ALL])

addWildcardRoute(mw0, rt0, method, path, handler) ==
  LET seed(mw, m) ==
        IF Has(mw[m], path) THEN mw[m]
        ELSE MapSet(mw[m], path, MiddlewareFor(mw[m], mw[METHOD_NAME_ALL], path))
      \* the Map is walked in insertion order: ALL first
      mwAll == [mw0 EXCEPT ![METHOD_NAME_ALL] = seed(mw0, METHOD_NAME_ALL)]
      mw1 == IF method = METHOD_NAME_ALL
               THEN [m \in DOMAIN mw0 |-> seed(mwAll, m)]
               ELSE [mw0 EXCEPT ![method] = seed(mw0, method)]
      rt1 == [m \in DOMAIN rt0 |->
                IF method = METHOD_NAME_ALL \/ method = m
                  THEN [p \in DOMAIN rt0[m] |->
                          IF buildWildcardRegExpTest(path, p)
                            THEN Append(rt0[m][p], handler) ELSE rt0[m][p]]
                  ELSE rt0[m]]
  IN [middleware |-> mw1, routes |-> rt1]

addStaticRouteAppends(old, handler) == Append(old, handler)

addStaticRoute(mw0, rt0, method, path, handler) ==
  LET rt1 == [m \in DOMAIN rt0 |->
                IF method = METHOD_NAME_ALL \/ method = m
                  THEN LET old == IF Has(rt0[m], path) THEN rt0[m][path]
                                  ELSE MiddlewareFor(mw0[m], mw0[METHOD_NAME_ALL], path)
                       IN MapSet(rt0[m], path, addStaticRouteAppends(old, handler))
                  ELSE rt0[m]]
  IN [middleware |-> mw0, routes |-> rt1]

\* `if (this.#compiledMatchers) throw new Error(MESSAGE_MATCHER_IS_ALREADY_BUILT)`
addNeverRefuses == FALSE
addRefuses == compiledMatchers

\* add(method, path, handler)
Add(method, path) ==
  /\ addCalls < MaxAdds
  /\ addCalls' = addCalls + 1
  /\ registered' = Append(registered, <<method, NormalizePath(path)>>)
  /\ IF addRefuses
       THEN /\ lastAdd' = "MatcherAlreadyBuilt"
            /\ UNCHANGED <<routes, middleware>>
       ELSE IF ~Has(middleware, METHOD_NAME_ALL)
         \* `this.#middleware!` is undefined once the matchers are built
         THEN /\ lastAdd' = "TypeError"
              /\ UNCHANGED <<routes, middleware>>
       ELSE LET mw0 == InitMethod(middleware, method)
                rt0 == InitMethod(routes, method)
                handler == addCalls + 1
                out == IF WILDCARD_END(NormalizePath(path))
                         THEN addWildcardRoute(mw0, rt0, method, NormalizePath(path), handler)
                         ELSE addStaticRoute(mw0, rt0, method, NormalizePath(path), handler)
            IN /\ lastAdd' = "ok"
               /\ routes' = out.routes
               /\ middleware' = out.middleware
  /\ UNCHANGED <<matcherCache, compiledMatchers, matchCalls, lastMatch>>

NULL_MATCHER == [static |-> EmptyMap, wild |-> EmptyMap]

\* the static paths go to the static map, the wildcard paths to the RegExp
buildMatcherFromPreprocessedRoutes(mwEntries, rtEntries) ==
  IF DOMAIN mwEntries = {} /\ DOMAIN rtEntries = {} THEN NULL_MATCHER
  ELSE LET all == [k \in DOMAIN mwEntries \cup DOMAIN rtEntries |->
                     IF Has(rtEntries, k) THEN rtEntries[k] ELSE mwEntries[k]]
       IN [static |-> [k \in {x \in DOMAIN all : ~STATIC_PATH_CHECK(x)} |-> all[k]],
           wild |-> [k \in {x \in DOMAIN all : STATIC_PATH_CHECK(x)} |-> all[k]]]

\* #buildMatcher(method): the method's own entries, or ALL's if it has none
buildMatcher(method) ==
  LET own(hmap) == IF Has(hmap, method) THEN hmap[method] ELSE EmptyMap
      pick(hmap) == IF DOMAIN own(hmap) # {} THEN own(hmap) ELSE hmap[METHOD_NAME_ALL]
      hasOwnRoute == \/ method = METHOD_NAME_ALL
                     \/ DOMAIN own(middleware) # {}
                     \/ DOMAIN own(routes) # {}
  IN [built |-> hasOwnRoute,
      matcher |-> buildMatcherFromPreprocessedRoutes(pick(middleware), pick(routes))]

\* #buildAllMatchers
buildAllMatchers ==
  LET ms == {m \in DOMAIN routes \cup DOMAIN middleware : buildMatcher(m).built}
  IN [m \in ms |-> buildMatcher(m).matcher]

\* match(method, path) on the matchers in cache
matchWith(cache, method, path) ==
  IF ~Has(cache, method) /\ ~Has(cache, METHOD_NAME_ALL) THEN <<>>
  ELSE LET matcher == IF Has(cache, method) THEN cache[method] ELSE cache[METHOD_NAME_ALL]
       IN IF Has(matcher.static, path) THEN matcher.static[path]
          \* path.match(matcher[0]): the alternative of the most specific
          \* wildcard path that matches
          ELSE LET ks == {k \in DOMAIN matcher.wild : buildWildcardRegExpTest(k, path)}
               IN IF ks = {} THEN <<>> ELSE matcher.wild[LongestKey(ks)]

\* match(method, path): the first call builds the matchers and seals the router
Match(method, path) ==
  /\ matchCalls < MaxMatches
  /\ matchCalls' = matchCalls + 1
  /\ matcherCache' = IF compiledMatchers THEN matcherCache ELSE buildAllMatchers
  /\ compiledMatchers' = TRUE
  /\ routes' = IF compiledMatchers THEN routes ELSE Undefined
  /\ middleware' = IF compiledMatchers THEN middleware ELSE Undefined
  /\ lastMatch' = [method |-> method, path |-> path,
                   handlers |-> matchWith(matcherCache', method, path)]
  /\ UNCHANGED <<addCalls, registered, lastAdd>>

RegExpIdle ==
  /\ routes = [m \in {METHOD_NAME_ALL} |-> EmptyMap]
  /\ middleware = [m \in {METHOD_NAME_ALL} |-> EmptyMap]
  /\ matcherCache = EmptyMap
  /\ compiledMatchers = FALSE
  /\ addCalls = 0
  /\ registered = <<>>
  /\ lastAdd = "none"
  /\ matchCalls = 0
  /\ lastMatch = [method |-> "", path |-> "", handlers |-> <<>>]

RegExpNext ==
  \/ \E m \in AddMethods, p \in AddPaths : Add(m, p)
  \/ \E m \in MatchMethods, p \in MatchPaths : Match(m, p)

\* ------------------------------------------- RadixRouteTrie and TrieRouter
MaxRoutes == 3

RouterTypes == {"TRIE", "RADIX"}
RouterMethods == {"GET", "POST"}

\* path segments, after sanitizeRoute(path).split("/")
Statics == {"a", "b"}
Dynamics == {":x", ":y"}
Wildcards == {"*", "*w"}
\* segment.startsWith(":")
isDynamic(seg) == seg \in Dynamics
\* segment === "*" || segment.startsWith("*")
isWildcard(seg) == seg \in Wildcards
\* segment.slice(1)
slice1(seg) ==
  CASE seg = ":x" -> "x" [] seg = ":y" -> "y" [] seg = "*w" -> "w" [] OTHER -> ""
\* String(i)
IndexKey(i) == CASE i = 0 -> "0" [] i = 1 -> "1" [] i = 2 -> "2" [] OTHER -> "3"

\* the route descriptors given to addRoute(): <<method, path>>
RouteChoices ==
  {<<"GET", <<"a">>>>, <<"GET", <<"a", "b">>>>, <<"POST", <<"a", "b">>>>,
   <<"GET", <<"a", ":x">>>>, <<"GET", <<"a", ":y">>>>, <<"GET", <<"a", ":y", "b">>>>,
   <<"GET", <<"a", "*">>>>, <<"POST", <<"a", "*">>>>, <<"GET", <<"a", "*w">>>>,
   <<"GET", <<"a", "*", "b">>>>, <<"GET", <<"a", ":x", "*", "b">>>>}
\* the request paths given to match()
RequestPaths ==
  {<<"a">>, <<"a", "a">>, <<"a", "b">>, <<"a", "a", "b">>, <<"a", "b", "b">>, <<"b">>}

\* new RadixSegmentNode(value, type) / new TrieSegmentNode(value)
NoData == [m \in RouterMethods |-> 0]
SegmentNode(value, type) ==
  [value |-> value, type |-> type, isEndOfRoute |-> FALSE, data |-> NoData,
   paramsKeys |-> <<>>, children |-> <<>>, middlewares |-> <<>>, hasPrevious |-> FALSE]
\* `node.prevTrieSegment = current` / `node.previousRadixSegment = current`:
\* the node points back to its parent
Linked(node) == [node EXCEPT !.hasPrevious = TRUE]

HasChild(store, at, key) ==
  \E i \in 1..Len(store[at].children) : store[at].children[i] = key

\* children.set(key, node) on the node at `at`
SetChild(store, at, key, node) ==
  [q \in DOMAIN store \cup {Append(at, key)} |->
     IF q = Append(at, key) THEN node
     ELSE IF q = at THEN [store[at] EXCEPT !.children = Append(@, key)]
     ELSE store[q]]

IsPrefix(p, q) == Len(p) <= Len(q) /\ SubSeq(q, 1, Len(p)) = p

\* orderTrieSegmentByType: the child keys of a node, static ones first, then
\* dynamic, then wildcard, each group in insertion order
OfType(store, at, t) ==
  SelectSeq(store[at].children, LAMBDA k : store[Append(at, k)].type = t)
orderDynamicFirst(store, at) ==
  OfType(store, at, "dynamic") \o OfType(store, at, "static") \o OfType(store, at, "wildcard")
orderTrieSegmentByType(store, at) ==
  OfType(store, at, "static") \o OfType(store, at, "dynamic") \o OfType(store, at, "wildcard")

\* ---- RadixRouteTrie.addRoute
\* RadixSegmentNode.insertChild(segmentKey, type)
insertChild(store, at, key, type) ==
  IF HasChild(store, at, key) THEN store
  ELSE SetChild(store, at, key, SegmentNode(key, type))

\* the loop of addRoute from segment i on; `ignored` is the early return
\* after the warning
RECURSIVE radixWalk(_, _, _, _)
radixWalk(store, at, segs, i) ==
  IF i > Len(segs) THEN [store |-> store, at |-> at, ignored |-> FALSE]
  ELSE LET segment == segs[i]
           type == IF isWildcard(segment) THEN "wildcard"
                   ELSE IF isDynamic(segment) THEN "dynamic" ELSE "static"
           \* `segmentKey = "*"`: the placeholder for dynamic segments
           segmentKey == IF type = "dynamic" THEN "*" ELSE segment
           s1 == insertChild(store, at, segmentKey, type)
           child == Append(at, segmentKey)
           s2 == IF type = "dynamic"
                   THEN [s1 EXCEPT ![child].paramsKeys = Append(@, slice1(segment))]
                   ELSE s1
       IN IF s2[child].type = "wildcard" /\ i < Len(segs)
            THEN [store |-> s2, at |-> child, ignored |-> TRUE]
            ELSE radixWalk(s2, child, segs, i + 1)

\* `currentNode.data[method] = data` keeps the other methods' data
setData(old, method, data) == [old EXCEPT ![method] = data]

\* the store, the outcome and whether #routes.add(route) was reached
radixAddRoute(store, method, segs, data) ==
  LET w == radixWalk(store, <<>>, segs, 1)
  IN IF w.ignored THEN [store |-> w.store, outcome |-> "ignored", kept |-> FALSE]
     ELSE [store |-> [w.store EXCEPT ![w.at].isEndOfRoute = TRUE,
                                     ![w.at].data = setData(@, method, data)],
           outcome |-> "added", kept |-> TRUE]

\* ---- RadixRouteTrie.match
\* a result of match(): `isNull` for null; `trail` and `bound` are
\* observations, the child keys the walk went through and the request
\* segments (numbered from 1) that were bound to a parameter
NoMatch == [matched |-> FALSE, isNull |-> TRUE, data |-> 0, params |-> EmptyMap,
            middlewares |-> <<>>, trail |-> <<>>, bound |-> {}]

\* ---- collectMiddlewares
Front(q) == SubSeq(q, 1, Len(q) - 1)
Reverse(q) == [i \in 1..Len(q) |-> q[Len(q) + 1 - i]]
\* the `stack` of collectMiddlewares: the middlewares of the node, then those
\* of the node it points back to, and so on while there is one
RECURSIVE stackFrom(_, _)
stackFrom(store, at) ==
  store[at].middlewares \o
    (IF store[at].hasPrevious THEN stackFrom(store, Front(at)) ELSE <<>>)
\* Set.add of each item in turn: an item already in the Set keeps its place
RECURSIVE addEach(_, _)
addEach(set, ms) ==
  IF ms = <<>> THEN set
  ELSE addEach(IF \E i \in 1..Len(set) : set[i] = ms[1] THEN set
               ELSE Append(set, ms[1]),
               Tail(ms))
\* RadixRouteTrie: `return stack`, and the caller makes a Set of it
radixCollect(store, at) == addEach(<<>>, stackFrom(store, at))
\* TrieRouter: stack.reverse().forEach(add)
trieCollect(store, at, set) == addEach(set, Reverse(stackFrom(store, at)))

\* the first child, in traversal order, that ends the inner loop of match:
\* 0 if none does
RECURSIVE radixPick(_, _, _, _, _, _)
radixPick(store, at, ordered, j, segment, method) ==
  IF j > Len(ordered) THEN 0
  ELSE LET child == store[Append(at, ordered[j])]
       IN IF child.type = "wildcard"
            THEN IF child.isEndOfRoute /\ child.data[method] # 0 THEN j
                 ELSE radixPick(store, at, ordered, j + 1, segment, method)
          ELSE IF child.type = "static"
            THEN IF child.value = segment THEN j
                 ELSE radixPick(store, at, ordered, j + 1, segment, method)
          ELSE j

\* segments.slice(i): the rest of the path, kept as the list of segments that
\* join("/") puts together
SliceFrom(segs, i) == SubSeq(segs, i, Len(segs))

\* child.paramsKeys[0]; params[undefined] names the key "undefined"
firstParamsKey(child) ==
  IF child.paramsKeys = <<>> THEN "undefined" ELSE child.paramsKeys[1]

RECURSIVE radixMatchFrom(_, _, _, _, _, _, _, _)
radixMatchFrom(store, at, segs, i, method, params, trail, bound) ==
  IF i > Len(segs)
    THEN IF store[at].isEndOfRoute /\ store[at].data[method] # 0
           THEN [matched |-> TRUE, isNull |-> FALSE, data |-> store[at].data[method],
                 params |-> params, middlewares |-> radixCollect(store, at),
                 trail |-> trail, bound |-> bound]
           ELSE NoMatch
  ELSE LET ordered == orderTrieSegmentByType(store, at)
           j == radixPick(store, at, ordered, 1, segs[i], method)
       IN IF j = 0 THEN NoMatch
          ELSE LET key == ordered[j]
                   child == store[Append(at, key)]
               IN IF child.type = "wildcard"
                    \* the index in the code is 0-based
                    THEN LET paramName == IF child.value # "*" THEN slice1(child.value)
                                          ELSE IndexKey(i - 1)
                         IN [matched |-> TRUE, isNull |-> FALSE,
                             data |-> child.data[method],
                             params |-> MapSet(params, paramName, SliceFrom(segs, i)),
                             middlewares |-> radixCollect(store, Append(at, key)),
                             trail |-> Append(trail, key),
                             bound |-> bound \cup (i..Len(segs))]
                  ELSE IF child.type = "static"
                    THEN radixMatchFrom(store, Append(at, key), segs, i + 1, method,
                                        params, Append(trail, key), bound)
                  ELSE LET paramName == firstParamsKey(child)
                       IN radixMatchFrom(store, Append(at, key), segs, i + 1, method,
                                         MapSet(params, paramName, <<segs[i]>>),
                                         Append(trail, key), bound \cup {i})

radixMatch(store, method, segs) ==
  radixMatchFrom(store, <<>>, segs, 1, method, EmptyMap, <<>>, {})

\* ---- TrieRouter.addRoute
\* TrieSegmentNode.determineType
determineType(value) ==
  IF isDynamic(value) THEN "dynamic" ELSE IF isWildcard(value) THEN "wildcard" ELSE "static"

\* children.clear() on the node at `at`: its subtree is no longer reachable
ClearChildren(store, at) ==
  [q \in {q \in DOMAIN store : ~(IsPrefix(at, q) /\ q # at)} |->
     IF q = at THEN [store[at] EXCEPT !.children = <<>>] ELSE store[q]]

childHasType(store, at, t) ==
  \E i \in 1..Len(store[at].children) : store[Append(at, store[at].children[i])].type = t

\* resolveWildCard: "go" (true), "stop" (false) or "TypeError", the read of
\* `.value` on children.get("*") when the wildcard child has another key
resolveWildCard(store, at, seg) ==
  IF isWildcard(seg) /\ store[at].children # <<>> THEN "go"
  ELSE IF childHasType(store, at, "wildcard")
    THEN IF HasChild(store, at, "*") THEN "stop" ELSE "TypeError"
  ELSE IF store[at].type = "wildcard" THEN "stop"
  ELSE "go"

\* resolveDynamicSegment
resolveDynamicSegment(store, at, method, seg) ==
  ~(isDynamic(seg) /\ childHasType(store, at, "dynamic") /\ store[at].data[method] # 0)

\* the loop of addRoute from segment i on
RECURSIVE trieWalk(_, _, _, _, _)
trieWalk(store, at, segs, i, method) ==
  IF i > Len(segs) THEN [store |-> store, at |-> at, outcome |-> "added"]
  ELSE LET seg == segs[i]
           w == resolveWildCard(store, at, seg)
           s1 == IF isWildcard(seg) /\ store[at].children # <<>>
                   THEN ClearChildren(store, at) ELSE store
       IN IF w = "TypeError" THEN [store |-> store, at |-> at, outcome |-> "TypeError"]
          ELSE IF w = "stop" \/ ~resolveDynamicSegment(s1, at, method, seg)
            THEN [store |-> s1, at |-> at, outcome |-> "stopped"]
          ELSE LET s2 == IF HasChild(s1, at, seg) THEN s1
                         ELSE SetChild(s1, at, seg,
                                       Linked(SegmentNode(seg, determineType(seg))))
               IN trieWalk(s2, Append(at, seg), segs, i + 1, method)

\* after the loop, also when it was left by `break`, the node reached gets
\* the route's data
trieAddRoute(store, method, segs, data) ==
  LET w == trieWalk(store, <<>>, segs, 1, method)
  IN IF w.outcome = "TypeError"
       THEN [store |-> w.store, outcome |-> "TypeError", kept |-> FALSE]
       ELSE [store |-> [w.store EXCEPT ![w.at].isEndOfRoute = TRUE,
                                       ![w.at].data = setData(@, method, data)],
             outcome |-> w.outcome, kept |-> TRUE]

\* ---- TrieRouter.match
\* the node lookup() walks to: at each segment the first child, in traversal
\* order, whose key is the segment or whose type is dynamic
NoNode == <<"none">>
RECURSIVE lookupWalk(_, _, _, _)
lookupWalk(store, at, segs, i) ==
  IF i > Len(segs) THEN at
  ELSE LET c == SelectSeq(orderTrieSegmentByType(store, at),
                          LAMBDA k : k = segs[i] \/ store[Append(at, k)].type = "dynamic")
       IN IF c = <<>> THEN NoNode ELSE lookupWalk(store, Append(at, c[1]), segs, i + 1)

\* findAllRoutes finds an end of route at or below the node
lookup(store, segs) ==
  LET at == lookupWalk(store, <<>>, segs, 1)
  IN IF at # NoNode /\ \E q \in DOMAIN store : IsPrefix(at, q) /\ store[q].isEndOfRoute
       THEN at ELSE NoNode

\* matched_route when no child took the request: an object, matched: false
Unmatched(params, mws, trail, bound) ==
  [matched |-> FALSE, isNull |-> FALSE, data |-> 0, params |-> params,
   middlewares |-> mws, trail |-> trail, bound |-> bound]

\* params[i] = params[i] for each remaining segment
RECURSIVE eachSegment(_, _, _)
eachSegment(params, rest, i) ==
  IF i > Len(rest) THEN params
  ELSE eachSegment(MapSet(params, IndexKey(i - 1), <<rest[i]>>), rest, i + 1)
\* the unnamed wildcard
unnamedWildcard(params, rest) == eachSegment(params, rest, 1)

RECURSIVE matchAll(_, _, _, _, _, _, _)
RECURSIVE trieChildren(_, _, _, _, _, _, _, _, _, _)
\* `idx` is `index + 1` of the code: segs[idx] is segments[index]; the node
\* is looked up anew from the root for each segment; `mws0` is
\* matched_route.middlewares so far
matchAll(store, segs, method, idx, params, bound, mws0) ==
  LET route == lookup(store, SubSeq(segs, 1, idx))
      hasNext == idx < Len(segs)
  IN IF route = NoNode THEN NoMatch
     ELSE LET mws == trieCollect(store, route, mws0)
          IN IF ~hasNext /\ store[route].isEndOfRoute
               THEN IF store[route].data[method] # 0
                      THEN [matched |-> TRUE, isNull |-> FALSE,
                            data |-> store[route].data[method], params |-> params,
                            middlewares |-> mws, trail |-> route, bound |-> bound]
                      ELSE NoMatch
             ELSE IF ~hasNext THEN NoMatch
             ELSE IF HasChild(store, route, segs[idx + 1])
               THEN matchAll(store, segs, method, idx + 1, params, bound, mws)
             ELSE trieChildren(store, route, orderTrieSegmentByType(store, route), 1,
                               segs, method, idx, params, bound, mws)

\* the loop over the ordered children of `route`; `skipped` wildcards have
\* lengthened matched_route before this one
trieChildren(store, route, ordered, j, segs, method, idx, params, bound, mws) ==
  IF j > Len(ordered) THEN Unmatched(params, mws, route, bound)
  ELSE LET seg == ordered[j]
           child == store[Append(route, seg)]
           next == segs[idx + 1]
       IN IF child.type = "dynamic"
            THEN matchAll(store, segs, method, idx + 1,
                          MapSet(params, slice1(seg), <<next>>), bound \cup {idx + 1}, mws)
          ELSE IF child.type = "wildcard"
            THEN LET skipped == Len(SelectSeq(SubSeq(ordered, 1, j - 1),
                                   LAMBDA k : store[Append(route, k)].type = "wildcard"))
                     rest == SliceFrom(segs, idx + skipped + 1)
                     p1 == IF seg # "*" THEN MapSet(params, slice1(seg), rest)
                           ELSE unnamedWildcard(params, rest)
                     b1 == bound \cup ((idx + skipped + 1)..Len(segs))
                 IN IF child.data[method] # 0
                      THEN [matched |-> TRUE, isNull |-> FALSE, data |-> child.data[method],
                            params |-> p1,
                            middlewares |-> trieCollect(store, Append(route, seg), mws),
                            trail |-> Append(route, seg), bound |-> b1]
                      ELSE trieChildren(store, route, ordered, j + 1, segs, method,
                                        idx, p1, b1, mws)
          ELSE IF seg # next
            THEN trieChildren(store, route, ordered, j + 1, segs, method, idx,
                              params, bound, mws)
          ELSE matchAll(store, segs, method, idx + 1, params, bound, mws)

trieMatch(store, method, segs) == matchAll(store, segs, method, 1, EmptyMap, {}, <<>>)

\* ---- pushMiddlewares, the same in TrieRouter and RadixRouteTrie
\* the sanitized paths given to pushMiddlewares(), as segments
MiddlewarePaths == {<<"*">>, <<"a">>, <<"a", "b">>, <<"a", "*">>}
MiddlewareChoices == {"m1", "m2"}

\* route.path.split("/"): the path of a registered route still has its
\* leading slash, which gives an empty first segment
RawSegments(segs) == <<"">> \o segs

\* segment.middlewares.push(...middlewares)
pushOnto(node, ms) == [node EXCEPT !.middlewares = @ \o ms]

\* applyMiddlewareToAllChildren / applyMiddlewareToSegment: the node and
\* every node below it
applyMiddlewareToAllChildren(store, at, ms) ==
  [q \in DOMAIN store |-> IF IsPrefix(at, q) THEN pushOnto(store[q], ms) ELSE store[q]]

\* new RadixSegmentNode(seg) is static whatever the segment is
\* new TrieSegmentNode(seg) takes its type from the segment
pathNode(type, seg) ==
  IF type = "TRIE" THEN SegmentNode(seg, determineType(seg))
  ELSE SegmentNode(seg, "static")

RECURSIVE addMiddlewareToPath(_, _, _, _, _, _)
addMiddlewareToPath(type, store, at, segs, i, ms) ==
  IF i > Len(segs) THEN store
  ELSE IF segs[i] = "*" THEN applyMiddlewareToAllChildren(store, at, ms)
  ELSE LET s1 == IF HasChild(store, at, segs[i]) THEN store
                 ELSE SetChild(store, at, segs[i], Linked(pathNode(type, segs[i])))
           child == Append(at, segs[i])
           s2 == IF i = Len(segs) THEN [s1 EXCEPT ![child] = pushOnto(@, ms)] ELSE s1
       IN addMiddlewareToPath(type, s2, child, segs, i + 1, ms)

\* the loop over #routes
RECURSIVE addMiddlewareToRoutes(_, _, _, _, _)
addMiddlewareToRoutes(type, store, rts, k, ms) ==
  IF k > Len(rts) THEN store
  ELSE addMiddlewareToRoutes(type,
         addMiddlewareToPath(type, store, <<>>, RawSegments(rts[k][2]), 1, ms),
         rts, k + 1, ms)

addGlobalMiddleware(store, ms) == applyMiddlewareToAllChildren(store, <<>>, ms)

\* `rts` is #routes of the router
pushMiddlewares(type, store, rts, path, ms) ==
  IF path = <<"*">>
    THEN addGlobalMiddleware(addMiddlewareToRoutes(type, store, rts, 1, ms), ms)
    ELSE addMiddlewareToPath(type, store, <<>>, path, 1, ms)

\* ---- RouterAdapter
RouterCalls == Len(addLog) + Len(pushLog)

\* the router of each type
addRouteOf(type, store, method, segs, data) ==
  IF type = "TRIE" THEN trieAddRoute(store, method, segs, data)
  ELSE radixAddRoute(store, method, segs, data)
matchOf(type, store, method, segs) ==
  IF type = "TRIE" THEN trieMatch(store, method, segs)
  ELSE radixMatch(store, method, segs)

\* RouterAdapter.match
matchIn(store, method, segs) == matchOf(routerType, store, method, segs)
match(method, segs) == matchIn(root, method, segs)

RouterIdle ==
  /\ routerType = "RADIX"
  /\ root = (<<>> :> SegmentNode("/", "static"))
  /\ registry = <<>>
  /\ routeData = <<>>
  /\ addLog = <<>>
  /\ pushLog = <<>>
  /\ addOutcome = "added"

\* the constructor
RouterInit ==
  /\ routerType \in RouterTypes
  /\ root = (<<>> :> SegmentNode("/", "static"))
  /\ registry = <<>>
  /\ routeData = <<>>
  /\ addLog = <<>>
  /\ pushLog = <<>>
  /\ addOutcome = "added"

\* RouterAdapter.addRoute(route): route.data is the number of the call
AddRoute(route) ==
  /\ RouterCalls < MaxRoutes
  /\ LET r == addRouteOf(routerType, root, route[1], route[2], Len(addLog) + 1)
     IN /\ root' = r.store
        /\ addOutcome' = r.outcome
        /\ registry' = IF r.kept THEN Append(registry, route) ELSE registry
        /\ routeData' = IF r.kept THEN Append(routeData, Len(addLog) + 1) ELSE routeData
  /\ addLog' = Append(addLog, route)
  /\ UNCHANGED <<routerType, pushLog>>

\* RouterAdapter.pushMiddlewares(path, [mw])
PushMiddlewares(path, mw) ==
  /\ RouterCalls < MaxRoutes
  /\ root' = pushMiddlewares(routerType, root, registry, path, <<mw>>)
  /\ pushLog' = Append(pushLog, [path |-> path, mw |-> mw, after |-> Len(addLog)])
  /\ UNCHANGED <<routerType, registry, routeData, addLog, addOutcome>>

RouterNext ==
  \/ \E route \in RouteChoices : AddRoute(route)
  \/ \E path \in MiddlewarePaths, mw \in MiddlewareChoices : PushMiddlewares(path, mw)

\* `for (const route of this.router.routes) newRouter.addRoute(route)`, from
\* route k on: the new router's tree, its #routes with their data, and
\* whether an addRoute() call threw
RECURSIVE reRegister(_, _, _)
reRegister(type, r, k) ==
  IF k > Len(registry) THEN r
  ELSE LET a == addRouteOf(type, r.store, registry[k][1], registry[k][2], routeData[k])
       IN IF a.outcome = "TypeError" THEN [r EXCEPT !.threw = TRUE]
          ELSE reRegister(type,
                          [store |-> a.store,
                           rts |-> IF a.kept THEN Append(r.rts, registry[k]) ELSE r.rts,
                           datas |-> IF a.kept THEN Append(r.datas, routeData[k])
                                     ELSE r.datas,
                           threw |-> FALSE],
                          k + 1)

\* RouterAdapter.switchRouter(type): a router of the other type is given
\* the routes of the current one and takes its place; with the type the
\* adapter already has, a warning only. An addRoute() call that throws
\* leaves the current router in place.
SwitchRouter(type) ==
  LET r == reRegister(type,
                      [store |-> (<<>> :> SegmentNode("/", "static")), rts |-> <<>>,
                       datas |-> <<>>, threw |-> FALSE],
                      1)
  IN IF type # routerType /\ ~r.threw
       THEN /\ routerType' = type
            /\ root' = r.store
            /\ registry' = r.rts
            /\ routeData' = r.datas
            /\ UNCHANGED <<addLog, pushLog, addOutcome>>
       ELSE UNCHANGED routerVars

SwitchNext ==
  \/ RouterNext
  \/ \E type \in RouterTypes : SwitchRouter(type)

\* ------------------------------------------- Context.formData / urlEncoded
MaxBodyCalls == 4
Accessors == {"formData", "urlEncoded"}
\* ctx.parsedBody, which the constructor copies into #body
ParsedBodies == {"undefined", "parsed"}

\* what an accessor stores in #body when it has read the body:
\* `await this.#rawRequest.formData()`, `new URLSearchParams(text)`
parseBody(accessor) == IF accessor = "formData" THEN "FormData" ELSE "URLSearchParams"

BodyIdle ==
  /\ body = "undefined"
  /\ bodyUsed = FALSE
  /\ bodyReads = 0
  /\ bodyCalls = <<>>

\* the constructor: `this.#rawRequest = request; this.#body = ctx.parsedBody`
BodyInit ==
  /\ body \in ParsedBodies
  /\ bodyUsed = FALSE
  /\ bodyReads = 0
  /\ bodyCalls = <<>>

\* formData() / urlEncoded() is called and runs up to its await: with a
\* #body it returns it; without one it reads the body of the raw Request,
\* which rejects with a TypeError when the body was already consumed
CallAccessor(accessor) ==
  /\ Len(bodyCalls) < MaxBodyCalls
  /\ IF body # "undefined"
       THEN /\ bodyCalls' = Append(bodyCalls,
                                   [accessor |-> accessor, pc |-> "done", value |-> body])
            /\ UNCHANGED <<bodyUsed, bodyReads>>
       ELSE IF bodyUsed
         THEN /\ bodyCalls' = Append(bodyCalls,
                                     [accessor |-> accessor, pc |-> "failed",
                                      value |-> "TypeError"])
              /\ UNCHANGED <<bodyUsed, bodyReads>>
       ELSE /\ bodyCalls' = Append(bodyCalls,
                                   [accessor |-> accessor, pc |-> "reading",
                                    value |-> "undefined"])
            /\ bodyUsed' = TRUE
            /\ bodyReads' = bodyReads + 1
  /\ UNCHANGED body

\* the read of call i is over: `this.#body = ...; return this.#body`
ReadSettles(i) ==
  /\ bodyCalls[i].pc = "reading"
  /\ body' = parseBody(bodyCalls[i].accessor)
  /\ bodyCalls' = [bodyCalls EXCEPT ![i] = [@ EXCEPT !.pc = "done", !.value = body']]
  /\ UNCHANGED <<bodyUsed, bodyReads>>

BodyNext ==
  \/ \E accessor \in Accessors : CallAccessor(accessor)
  \/ \E i \in DOMAIN bodyCalls : ReadSettles(i)

\* ---------------------------------------------------------- cors middleware
\* opts.origin: the default "*", a string, an array, or a function (here
\* one that allows no origin)
OriginOptions == {"*", "string", "array", "function"}
\* opts.maxAge: the default undefined, null, or a number
MaxAgeOptions == {"undefined", "null", "600"}
DefaultAllowMethods == <<"GET", "HEAD", "PUT", "POST", "DELETE", "PATCH">>
AllowedOrigins == <<"https://a.example", "https://b.example">>

CorsOptions ==
  [origin : OriginOptions, maxAge : MaxAgeOptions, credentials : BOOLEAN,
   allowMethods : {DefaultAllowMethods, <<>>}, allowHeaders : {<<>>, <<"X-B">>},
   exposeHeaders : {<<>>, <<"X-A">>}]
\* "" for a header the request does not have
CorsRequests ==
  [method : {"GET", "OPTIONS"}, origin : {"", "https://b.example"}, vary : {"", "Accept"},
   requestHeaders : {"", "X-C"}]

\* findAllowOrigin: "" for null
findAllowOrigin(opts, origin) ==
  IF opts.origin = "*" THEN "*"
  ELSE IF opts.origin = "string" THEN AllowedOrigins[1]
  ELSE IF opts.origin = "function" THEN ""
  ELSE IF \E i \in DOMAIN AllowedOrigins : AllowedOrigins[i] = origin THEN origin
  ELSE AllowedOrigins[1]

\* Headers.set, Headers.append and Headers.delete; a value is the list of
\* the strings that join(",") or the runtime puts together
headersSet(hs, key, value) ==
  [k \in DOMAIN hs \cup {key} |-> IF k = key THEN value ELSE hs[k]]
headersAdd(hs, key, value) ==
  [k \in DOMAIN hs \cup {key} |->
     IF k # key THEN hs[k] ELSE IF key \in DOMAIN hs THEN hs[k] \o value ELSE value]
headersDelete(hs, key) == [k \in DOMAIN hs \ {key} |-> hs[k]]

\* the statements before `if (ctx.req.method === "OPTIONS")`
corsCommon(opts, req, hs) ==
  LET allowOrigin == findAllowOrigin(opts, req.origin)
      h1 == IF allowOrigin # "" THEN headersSet(hs, "Access-Control-Allow-Origin", <<allowOrigin>>)
            ELSE hs
      h2 == IF opts.origin # "*"
              THEN headersSet(h1, "Vary", <<IF req.vary # "" THEN req.vary ELSE "Origin">>)
              ELSE h1
      h3 == IF opts.credentials
              THEN headersSet(h2, "Access-Control-Allow-Credentials", <<"true">>) ELSE h2
  IN IF opts.exposeHeaders # <<>>
       THEN headersSet(h3, "Access-Control-Expose-Headers", opts.exposeHeaders) ELSE h3

\* the rest of the branch of an OPTIONS request, after Access-Control-Max-Age
corsPreflight(opts, req, hs) ==
  LET h1 == IF opts.allowMethods # <<>>
              THEN headersSet(hs, "Access-Control-Allow-Methods", opts.allowMethods) ELSE hs
      headers == IF opts.allowHeaders # <<>> THEN opts.allowHeaders
                 ELSE IF req.requestHeaders # "" THEN <<req.requestHeaders>> ELSE <<>>
      h2 == IF headers # <<>>
              THEN headersAdd(headersSet(h1, "Access-Control-Allow-Headers", headers),
                              "Vary", <<"Access-Control-Request-Headers">>)
              ELSE h1
  IN headersDelete(headersDelete(h2, "Content-Length"), "Content-Type")

\* `opts.maxAge!.toString()`, called whenever `opts.maxAge !== null`, throws
\* a TypeError on undefined
maxAgeThrows(opts) == opts.maxAge = "undefined"

\* the middleware from its first statement to its end: the headers of
\* ctx.res and how it ended
cors(opts, req, hs) ==
  LET h0 == corsCommon(opts, req, hs)
  IN IF req.method = "OPTIONS"
       THEN IF opts.maxAge # "null" /\ maxAgeThrows(opts)
              THEN [headers |-> h0, kind |-> "TypeError", status |-> 0, next |-> FALSE]
              ELSE LET h1 == IF opts.maxAge # "null"
                               THEN headersSet(h0, "Access-Control-Max-Age", <<opts.maxAge>>)
                               ELSE h0
                   IN [headers |-> corsPreflight(opts, req, h1), kind |-> "Response",
                       status |-> 204, next |-> FALSE]
       ELSE [headers |-> h0, kind |-> "returned", status |-> 0, next |-> TRUE]

CorsNotCalled == [kind |-> "none", status |-> 0, next |-> FALSE]
ResHeaders == {EmptyMap, [k \in {"Content-Type"} |-> <<"text/plain">>]}

CorsIdle ==
  /\ corsOpts = [origin |-> "*", maxAge |-> "undefined", credentials |-> FALSE,
                 allowMethods |-> DefaultAllowMethods, allowHeaders |-> <<>>,
                 exposeHeaders |-> <<>>]
  /\ corsReq = [method |-> "GET", origin |-> "", vary |-> "", requestHeaders |-> ""]
  /\ corsHeaders = EmptyMap
  /\ corsOut = CorsNotCalled

\* cors(options), and the request the middleware is given
CorsInit ==
  /\ corsOpts \in CorsOptions
  /\ corsReq \in CorsRequests
  /\ corsHeaders \in ResHeaders
  /\ corsOut = CorsNotCalled

\* the middleware runs on the request
Cors ==
  /\ corsOut = CorsNotCalled
  /\ LET out == cors(corsOpts, corsReq, corsHeaders)
     IN /\ corsHeaders' = out.headers
        /\ corsOut' = [kind |-> out.kind, status |-> out.status, next |-> out.next]
  /\ UNCHANGED <<corsOpts, corsReq>>

CorsNext == Cors

\* ---- plugins that register routes in onInit
\* the ServeX forms: `new RegExpRouter()` is their matcher
OnInitServers == {"queued", "bundled", "direct"}
OnInitKinds == {"ok", "async"}
\* the route a plugin registers: pluginContext.server.get(route.path, handler)
OnInitRoutes == {"/a/x"}

\* the onInit of plugin k has been invoked and has not ended
OnInitRunning(k) == pluginPc[k] \in {"running", "awaiting"}

\* a step of the server; _dispatch begins with scope.router.match(method, pathname)
ServerStep ==
  /\ Running
  /\ IF dispatchLog' # dispatchLog
       THEN \E m \in MatchMethods, p \in MatchPaths : Match(m, p)
       ELSE UNCHANGED regexpVars

\* the onInit of plugin k registers a route (fsPlugin: after its
\* `await fr.initialize()`)
RegisterRoute(k, path) ==
  /\ OnInitRunning(k)
  /\ Add("GET", path)
  /\ UNCHANGED serverVars

\* the direct form's `const ret = plugin.onInit(...)`, without await, when
\* onInit reaches an await: ret is the pending promise, `ret.dispose` is
\* undefined (0 here), and the loop goes on while onInit is still running
OnInitAwaits(k) ==
  /\ serverVariant = "direct"
  /\ initPc = "invoke"
  /\ pluginPc[k] = "running"
  /\ plugins[k] = "async"
  /\ disposers' = Append(disposers, 0)
  /\ LET pluginPc0 == [pluginPc EXCEPT ![k] = "awaiting"]
         nxt == NextPlugin(k)
     IN IF nxt <= NP
          THEN /\ StartPlugin(nxt, pluginPc0)
               /\ UNCHANGED <<initPc, constructed>>
          ELSE /\ pluginPc' = pluginPc0
               /\ initPc' = "done"
               /\ constructed' = TRUE
               /\ UNCHANGED initLog
  /\ UNCHANGED <<serverVariant, plugins, pluginResolved, items, head,
                 tail, ticks, arrived, reqPc, viaQueue, dispatchLog, eventLog,
                 chainOut, fetchOut, disposed, shutdown, errorLog>>
  /\ UNCHANGED regexpVars

\* the promise of an onInit that nothing awaits resolves
OnInitResumes(k) ==
  /\ pluginPc[k] = "awaiting"
  /\ pluginPc' = [pluginPc EXCEPT ![k] = "ready"]
  /\ UNCHANGED <<serverVariant, plugins, constructed, initPc, initLog, disposers,
                 errorLog, disposed, shutdown, pluginResolved, items, head, tail,
                 ticks, arrived, reqPc, viaQueue, dispatchLog, eventLog, chainOut,
                 fetchOut>>
  /\ UNCHANGED regexpVars

OnInitNext ==
  \/ ServerStep
  \/ \E k \in 1..NP, path \in OnInitRoutes : RegisterRoute(k, path)
  \/ \E k \in 1..NP : OnInitAwaits(k)
  \/ \E k \in 1..NP : OnInitResumes(k)

\* ---------------------------------------------------------- specifications
\* ------------------------------------------------------------ EventManager
MaxSubs == 3
MaxEmits == 2

EmitVariants == {"parallel", "serial"}
\* what a subscriber does when called: returns (or resolves), throws before
\* it returns, or returns a promise that rejects
SubscriberKinds == {"ok", "throw", "reject"}

\* the first subscriber that ends the calls of emit, 0 if none does
FirstOf(subs, kinds) ==
  IF \E i \in 1..Len(subs) : subs[i] \in kinds
    THEN CHOOSE i \in 1..Len(subs) :
           /\ subs[i] \in kinds
           /\ \A j \in 1..(i - 1) : subs[j] \notin kinds
    ELSE 0

\* the subscribers emit() calls, in order:
\*   parallel: `[...handlers].map((handler) => handler(...data))` goes on
\*     until a call throws; serial: `for (...) await handler(...data)` goes on
\*     until a call throws or its promise rejects
emitInvokes(variant, subs) ==
  LET stop == FirstOf(subs, IF variant = "parallel" THEN {"throw"}
                            ELSE {"throw", "reject"})
  IN [i \in 1..(IF stop = 0 THEN Len(subs) ELSE stop) |-> i]

\* how the promise of emit() settles: neither form catches
emitSettles(variant, subs) ==
  IF \E i \in 1..Len(emitInvokes(variant, subs)) : subs[i] # "ok"
    THEN "rejected" ELSE "resolved"

\* fetch of the request whose dispatch awaits the emit: a rejection is caught
\* by fetch and answered with the 500 Response. The server with the parallel
\* emit has the emit calls of its dispatch commented out: no request (0)
emitFetchStatus(variant, settled) ==
  IF variant = "parallel" THEN 0
  ELSE IF settled = "rejected" THEN 500 ELSE 200

EventIdle ==
  /\ emitVariant = "serial"
  /\ events = <<>>
  /\ emitCalls = 0
  /\ lastEmit = [subs |-> 0, invoked |-> <<>>, settled |-> "none", status |-> 0]

EventInit ==
  /\ emitVariant \in EmitVariants
  /\ events = <<>>
  /\ emitCalls = 0
  /\ lastEmit = [subs |-> 0, invoked |-> <<>>, settled |-> "none", status |-> 0]

\* on("server:request", handler)
On(kind) ==
  /\ Len(events) < MaxSubs
  /\ events' = Append(events, kind)
  /\ UNCHANGED <<emitVariant, emitCalls, lastEmit>>

\* dispatch: `await this.emit("server:request", requestContext, request)`
Emit ==
  /\ emitCalls < MaxEmits
  /\ emitCalls' = emitCalls + 1
  /\ lastEmit' = [subs |-> Len(events),
                  invoked |-> emitInvokes(emitVariant, events),
                  settled |-> emitSettles(emitVariant, events),
                  status |-> emitFetchStatus(emitVariant, emitSettles(emitVariant, events))]
  /\ UNCHANGED <<emitVariant, events>>

EventNext ==
  \/ \E kind \in SubscriberKinds : On(kind)
  \/ Emit

\* ---------------------------------------------------------------- Context
MaxHeaderCalls == 2

Builders == {"json", "text", "html", "redirect", "stream"}
\* the names given to setHeaders, and the values
HeaderNames == {"X-Custom-Header"}
HeaderValues == {"v1", "v2"}
\* ck.serialize(name, value, options)
CookieStrings == {"a=1", "b=2"}

\* Headers keeps the names in lower case
lowerCase(name) ==
  CASE name = "X-Custom-Header" -> "x-custom-header"
    [] name = "Set-Cookie" -> "set-cookie"
    [] name = "Content-Type" -> "content-type"
    [] name = "Transfer-Encoding" -> "transfer-encoding"
    [] name = "Location" -> "location"
    [] OTHER -> name

\* Headers.append(name, value): one more value under the name
headersAppend(hs, name, value) ==
  MapSet(hs, lowerCase(name),
         IF Has(hs, lowerCase(name)) THEN Append(hs[lowerCase(name)], value)
         ELSE <<value>>)

\* parseHeaders: `headers.forEach((value, key) => result[key] = value)`.
\* A name comes once with its values joined, except that a runtime may give
\* each Set-Cookie value on its own: the last one then stays in the record
parseHeaders(hs, split) ==
  [k \in DOMAIN hs |->
     IF k = "set-cookie" /\ split THEN <<hs[k][Len(hs[k])]>> ELSE hs[k]]

\* { ...first, ...second }: the entries of second go over those of first
spread(first, second) ==
  [k \in DOMAIN first \cup DOMAIN second |->
     IF Has(second, k) THEN second[k] ELSE first[k]]

\* the header record of one entry
Header(name, value) == [k \in {lowerCase(name)} |-> <<value>>]

\* text / html / redirect: `new Headers(responseHeaders)` of the builder's
\* own entries only
ownHeadersOnly(b, hs, split, own) == own

\* the headers of the Response the builder returns
builderHeaders(b, hs, split) ==
  CASE b = "json" ->
         spread(parseHeaders(hs, split),
                Header("Content-Type", "application/json; charset=UTF-8"))
    [] b = "stream" ->
         spread(spread(Header("Content-Type", "text/plain; charset=UTF-8"),
                       Header("Transfer-Encoding", "chunked")),
                parseHeaders(hs, split))
    [] b = "text" ->
         ownHeadersOnly(b, hs, split, Header("Content-Type", "text/plain; charset=UTF-8"))
    [] b = "html" ->
         ownHeadersOnly(b, hs, split, Header("Content-Type", "text/html; charset=UTF-8"))
    [] OTHER ->
         ownHeadersOnly(b, hs, split, Header("Location", "/to"))

NotBuilt == [builder |-> "none", before |-> EmptyMap, headers |-> EmptyMap]

ContextIdle ==
  /\ splitCookies = FALSE
  /\ responseHeaders = EmptyMap
  /\ headerCalls = 0
  /\ built = NotBuilt

\* `#response: Response = new Response()`
ContextInit ==
  /\ splitCookies \in BOOLEAN
  /\ responseHeaders = EmptyMap
  /\ headerCalls = 0
  /\ built = NotBuilt

\* setHeaders({ [name]: value })
SetHeaders(name, value) ==
  /\ headerCalls < MaxHeaderCalls
  /\ headerCalls' = headerCalls + 1
  /\ responseHeaders' = headersAppend(responseHeaders, name, value)
  /\ UNCHANGED <<splitCookies, built>>

\* setCookie(name, value, options)
SetCookie(ckStr) ==
  /\ headerCalls < MaxHeaderCalls
  /\ headerCalls' = headerCalls + 1
  /\ responseHeaders' = headersAppend(responseHeaders, "Set-Cookie", ckStr)
  /\ UNCHANGED <<splitCookies, built>>

\* json / text / html / redirect / stream; json keeps its Response as the
\* Context's #response
Build(b) ==
  /\ built.builder = "none"
  /\ built' = [builder |-> b, before |-> responseHeaders,
               headers |-> builderHeaders(b, responseHeaders, splitCookies)]
  /\ responseHeaders' = IF b = "json" THEN built'.headers ELSE responseHeaders
  /\ UNCHANGED <<splitCookies, headerCalls>>

ContextNext ==
  \/ \E name \in HeaderNames, value \in HeaderValues : SetHeaders(name, value)
  \/ \E ckStr \in CookieStrings : SetCookie(ckStr)
  \/ \E b \in Builders : Build(b)

ChainIdle ==
  /\ execVariant = "recursive"
  /\ handlers = <<>>
  /\ phase = "init"
  /\ pc = <<>>
  /\ nextCalled = <<>>
  /\ index = 0
  /\ frameErr = <<>>
  /\ response = None
  /\ result = None
  /\ rejection = NoErr
  /\ defaultRan = FALSE
  /\ nextCalls = <<>>
  /\ invoked = <<>>
  /\ returned = <<>>
  /\ log = <<>>

\* one call of executeHandlers / MiddlewareManager.execute
Init ==
  /\ ChainInit
  /\ serverVariant = "adapter"
  /\ plugins = <<>>
  /\ ServerIdle
  /\ ScopeIdle
  /\ RegExpIdle
  /\ RouterIdle
  /\ EventIdle
  /\ ContextIdle /\ BodyIdle /\ CorsIdle
Next == ChainNext /\ UNCHANGED <<serverVars, scopeVars, regexpVars, routerVars, eventVars,
                                 contextVars, bodyVars, corsVars>>
Spec == Init /\ [][Next]_vars

\* a server from construction on, and the requests it is given
InitServer ==
  ServerInit /\ ChainIdle /\ ScopeIdle /\ RegExpIdle /\ RouterIdle /\ EventIdle /\ ContextIdle /\ BodyIdle /\ CorsIdle
NextServer == ServerNext /\ UNCHANGED <<chainVars, scopeVars, regexpVars, routerVars, eventVars,
                                     contextVars, bodyVars, corsVars>>
SpecServer == InitServer /\ [][NextServer]_vars

\* the same server while it is not shut down; the event loop runs every
\* callback and every continuation that is ready to run
NextServerLive == Running /\ UNCHANGED <<chainVars, scopeVars, regexpVars, routerVars, eventVars,
                                        contextVars, bodyVars, corsVars>>
SpecServerLive == InitServer /\ [][NextServerLive]_vars /\ WF_vars(NextServerLive)

\* a ServeX server over the RegExpRouter whose plugins register routes in
\* onInit, and the requests it is given while they do
InitOnInit ==
  /\ serverVariant \in OnInitServers
  /\ plugins \in SeqsUpTo(OnInitKinds, MaxPlugins)
  /\ ServerIdle
  /\ RegExpIdle
  /\ ChainIdle /\ ScopeIdle /\ RouterIdle /\ EventIdle /\ ContextIdle /\ BodyIdle /\ CorsIdle
NextOnInit == OnInitNext /\ UNCHANGED <<chainVars, scopeVars, routerVars, eventVars, contextVars, bodyVars, corsVars>>
SpecOnInit == InitOnInit /\ [][NextOnInit]_vars

\* a constructed server (src/src/index.ts) handling requests whose handlers
\* call the ambient accessors
InitScope ==
  /\ ScopeIdle
  /\ ChainIdle
  /\ serverVariant = "direct"
  /\ plugins = <<>>
  /\ ServerIdle
  /\ RegExpIdle
  /\ RouterIdle
  /\ EventIdle
  /\ ContextIdle /\ BodyIdle /\ CorsIdle
NextScope == ScopeNext /\ UNCHANGED <<chainVars, serverVars, regexpVars, routerVars, eventVars,
                                   contextVars, bodyVars, corsVars>>
SpecScope == InitScope /\ [][NextScope]_vars

\* a RegExpRouter from construction on, given add() and match() calls
InitRegExp ==
  /\ RegExpIdle
  /\ ScopeIdle
  /\ ChainIdle
  /\ serverVariant = "queued"
  /\ plugins = <<>>
  /\ ServerIdle
  /\ RouterIdle
  /\ EventIdle
  /\ ContextIdle /\ BodyIdle /\ CorsIdle
NextRegExp == RegExpNext /\ UNCHANGED <<chainVars, serverVars, scopeVars, routerVars>>
                         /\ UNCHANGED <<eventVars, contextVars, bodyVars, corsVars>>
SpecRegExp == InitRegExp /\ [][NextRegExp]_vars

\* a RouterAdapter over a TrieRouter or a RadixRouteTrie, given addRoute()
\* calls; match() reads the tree only
InitRouter ==
  /\ RouterInit
  /\ RegExpIdle
  /\ ScopeIdle
  /\ ChainIdle
  /\ serverVariant = "adapter"
  /\ plugins = <<>>
  /\ ServerIdle
  /\ EventIdle
  /\ ContextIdle /\ BodyIdle /\ CorsIdle
NextRouter == RouterNext /\ UNCHANGED <<chainVars, serverVars, scopeVars, regexpVars, eventVars,
                                     contextVars, bodyVars, corsVars>>
SpecRouter == InitRouter /\ [][NextRouter]_vars

\* the same RouterAdapter, given switchRouter() calls as well
NextSwitch == SwitchNext /\ UNCHANGED <<chainVars, serverVars, scopeVars, regexpVars, eventVars,
                                     contextVars, bodyVars, corsVars>>
SpecSwitch == InitRouter /\ [][NextSwitch]_vars

\* an EventManager given on("server:request", ...) calls, and the
\* emit("server:request") of a request
InitEvents ==
  /\ EventInit
  /\ RouterIdle
  /\ RegExpIdle
  /\ ScopeIdle
  /\ ChainIdle
  /\ execVariant = "recursive"
  /\ handlers = <<>>
  /\ serverVariant = "adapter"
  /\ plugins = <<>>
  /\ ServerIdle
  /\ ContextIdle /\ BodyIdle /\ CorsIdle
NextEvents == EventNext /\ UNCHANGED <<chainVars, serverVars, scopeVars, regexpVars, routerVars,
                                     contextVars, bodyVars, corsVars>>
SpecEvents == InitEvents /\ [][NextEvents]_vars

\* a Context given setHeaders() and setCookie() calls and response builder calls
InitContext ==
  /\ ContextInit
  /\ BodyIdle
  /\ CorsIdle
  /\ EventIdle
  /\ RouterIdle
  /\ RegExpIdle
  /\ ScopeIdle
  /\ ChainIdle
  /\ execVariant = "recursive"
  /\ handlers = <<>>
  /\ serverVariant = "adapter"
  /\ plugins = <<>>
  /\ ServerIdle
NextContext == ContextNext /\ UNCHANGED <<chainVars, serverVars, scopeVars, regexpVars,
                                         routerVars, eventVars, bodyVars, corsVars>>
SpecContext == InitContext /\ [][NextContext]_vars

\* a Context given formData() and urlEncoded() calls
InitBody ==
  /\ BodyInit
  /\ CorsIdle
  /\ ContextIdle
  /\ EventIdle /\ RouterIdle /\ RegExpIdle /\ ScopeIdle /\ ChainIdle
  /\ serverVariant = "adapter"
  /\ plugins = <<>>
  /\ ServerIdle
NextBody == BodyNext /\ UNCHANGED <<chainVars, serverVars, scopeVars, regexpVars,
                                   routerVars, eventVars, contextVars, corsVars>>
SpecBody == InitBody /\ [][NextBody]_vars

\* the cors middleware of every choice of options, given one request
InitCors ==
  /\ CorsInit
  /\ BodyIdle
  /\ ContextIdle
  /\ EventIdle /\ RouterIdle /\ RegExpIdle /\ ScopeIdle /\ ChainIdle
  /\ serverVariant = "adapter"
  /\ plugins = <<>>
  /\ ServerIdle
NextCors == CorsNext /\ UNCHANGED <<chainVars, serverVars, scopeVars, regexpVars,
                                   routerVars, eventVars, contextVars, bodyVars>>
SpecCors == InitCors /\ [][NextCors]_vars

\* ------------------------------------------------------------------ checks
ExecuteHandlersForms == {"recursive", "loop"}
Settled == phase \in {"resolved", "rejected"}

\* the step-by-step executor and the executor the server runs agree on every
\* handler list in which each next() is awaited
ExecutorsAgree ==
  (Settled /\ execVariant \in ExecuteHandlersForms
     /\ \A i \in Frames : handlers[i].next # "noawait")
  => LET out == executeHandlers(handlers, execVariant)
     IN /\ out.kind = phase
        /\ out.resp = result
        /\ (phase = "rejected" => out.err = rejection)

\* C1: a frame's next() advances the chain at most once: no handler is ever
\* invoked a second time, and a frame that called next() a second time has
\* failed with the "next() called multiple times" error.
C1_NextAtMostOnce ==
  \A i \in Frames :
    /\ invoked[i] <= 1
    /\ nextCalls[i] >= 2 => (pc[i] = "thrown" /\ frameErr[i] = NextCalledTwice(i))

\* a frame called next() twice and the handler after it ran once
C1_Witness ==
  \E i \in Frames :
    IF i < N THEN nextCalls[i] = 2 /\ invoked[i + 1] = 1 /\ pc[i] = "thrown"
    ELSE FALSE

\* every handler awaits next() exactly once and then returns
AllAwaitNextOnce ==
  \A i \in Frames : handlers[i].next = "await" /\ handlers[i].ret \in {"void", "resp"}

\* h1-pre .. hn-pre, hn-post .. h1-post
PrePost(n) ==
  [k \in 1..(2 * n) |-> IF k <= n THEN <<"pre", k>> ELSE <<"post", 2 * n - k + 1>>]

\* C2: when every handler awaits next() once, executeHandlers runs the code
\* before next() in list order and then the code after next() in reverse order.
C2_PrePostOrder ==
  (execVariant \in ExecuteHandlersForms /\ phase = "resolved" /\ AllAwaitNextOnce)
  => log = PrePost(N)

\* C3: when the handler at k returns without calling next() (the handlers
\* before it await next() and return), no handler after k is invoked, and the
\* handlers before k have run their code after next() when the call resolves.
C3_ShortCircuit ==
  execVariant \in ExecuteHandlersForms =>
    \A k \in Frames :
      (/\ pc[k] = "done"
       /\ handlers[k].next = "none"
       /\ \A j \in 1..(k - 1) :
            handlers[j].next = "await" /\ handlers[j].ret \in {"void", "resp"})
      => /\ \A j \in (k + 1)..N : invoked[j] = 0
         /\ phase = "resolved" =>
              \A j \in 1..(k - 1) : \E x \in 1..Len(log) : log[x] = <<"post", j>>

\* the chain ended with an exception
ChainThrew == IF ChainEnd = 0 THEN FALSE ELSE pc[ChainEnd] = "thrown"
\* some handler has returned a Response
SomeHandlerReturnedResponse ==
  \E i \in Frames : pc[i] = "done" /\ handlers[i].ret = "resp"

\* C8: when the exception that ends the chain exposes getResponse(),
\* executeHandlers does not rethrow: it resolves with the Response of
\* getResponse(), whatever Response a handler had returned before.
C8_SentinelRecovered ==
  (/\ execVariant \in ExecuteHandlersForms
   /\ Settled
   /\ ChainThrew
   /\ frameErr[IF ChainEnd = 0 THEN 1 ELSE ChainEnd].kind = "http")
  => /\ phase = "resolved"
     /\ rejection = NoErr
     /\ result = [status |-> 403, body |-> "Forbidden",
                  src |-> frameErr[IF ChainEnd = 0 THEN 1 ELSE ChainEnd].src]

\* a sentinel was recovered although another handler had returned a Response
C8_Witness ==
  /\ execVariant \in ExecuteHandlersForms
  /\ phase = "resolved"
  /\ ChainThrew
  /\ result.status = 403
  /\ SomeHandlerReturnedResponse
  /\ response # None

\* C10: at the step that settles executeHandlers, defaultHandler runs exactly
\* when the chain ended without an exception and no handler had returned a
\* Response; the call then resolves with 404 "Not Found".
C10_DefaultHandler ==
  [][(execVariant \in ExecuteHandlersForms /\ phase = "running" /\ phase' # "running")
       => /\ defaultRan' <=> (~ChainThrew /\ ~SomeHandlerReturnedResponse)
          /\ defaultRan' =>
               /\ phase' = "resolved"
               /\ result' = [status |-> 404, body |-> "Not Found", src |-> 0]]_vars

\* the default handler answered a chain whose handlers all ran and returned nothing
C10_Witness ==
  /\ execVariant \in ExecuteHandlersForms
  /\ defaultRan
  /\ N >= 2
  /\ \A i \in Frames : pc[i] = "done"
  /\ result.status = 404

\* some plugin's onInit has not finished yet
PluginsInitializing == \E k \in 1..NP : pluginPc[k] \in {"registered", "running"}

C5_ArrivalOrder ==
  \A a, b \in 1..Len(dispatchLog) :
    (a < b /\ viaQueue[dispatchLog[a]] /\ viaQueue[dispatchLog[b]])
    => dispatchLog[a] < dispatchLog[b]

EventCount(name, r) ==
  Cardinality({x \in 1..Len(eventLog) : eventLog[x] = <<name, r>>})

\* C7: for every request fetch has settled, exactly one server:request and
\* exactly one server:response were emitted, server:request first.
C7_OneRequestOneResponse ==
  \A r \in Requests :
    reqPc[r] = "done" =>
      /\ EventCount("server:request", r) = 1
      /\ EventCount("server:response", r) = 1
      /\ \A x, y \in 1..Len(eventLog) :
           (eventLog[x] = <<"server:request", r>> /\ eventLog[y] = <<"server:response", r>>)
           => x < y

\* C9: when a handler threw an exception without getResponse(), fetch has
\* resolved with status 500 and body "Internal Server Error".
C9_FetchResolves500 ==
  \A r \in Requests :
    (reqPc[r] = "done" /\ chainOut[r].kind = "rejected")
    => fetchOut[r] = [kind |-> "resolved", err |-> NoErr,
                      resp |-> [status |-> 500, body |-> "Internal Server Error", src |-> 0]]

\* ------------------------------------------------------------- C11 .. C13
Last(q) == q[Len(q)]

\* every handler that called next() awaited it
AllNextAwaited == \A i \in Frames : handlers[i].next # "noawait"

\* C11 (as claimed): when several handlers returned a Response, executeHandlers
\* has resolved with the Response of the handler that returned first.
C11_FirstResponseWins ==
  (/\ execVariant \in ExecuteHandlersForms
   /\ phase = "resolved"
   /\ ~ChainThrew
   /\ AllNextAwaited
   /\ Len(returned) >= 2)
  => result = HandlerResponse(returned[1])

\* C11 (amended): every Response a handler returns replaces the one recorded
\* before it: the recorded Response is always that of the handler that
\* returned last.
C11_LaterResponseReplaces ==
  (execVariant \in ExecuteHandlersForms /\ returned # <<>>)
  => response = HandlerResponse(Last(returned))

\* two handlers returned a Response and the call resolved with the later one
C11_Witness ==
  /\ execVariant \in ExecuteHandlersForms
  /\ phase = "resolved"
  /\ Len(returned) >= 2
  /\ returned[1] # Last(returned)
  /\ result = HandlerResponse(Last(returned))

\* C12: at the step that resolves executeHandlers after handlers returned
\* Responses, the result is the Response returned last; a step in which no
\* handler returns a Response leaves the recorded Response in place.
C12_LastResponseWins ==
  [][(execVariant \in ExecuteHandlersForms) =>
       (/\ (phase = "running" /\ phase' = "resolved" /\ ~ChainThrew /\ returned # <<>>)
             => result' = HandlerResponse(Last(returned))
        /\ (returned' = returned /\ phase' = phase) => response' = response)]_vars

\* the call resolved with the Response returned last although a handler
\* returned nothing after two Responses had been recorded
C12_Witness ==
  /\ execVariant \in ExecuteHandlersForms
  /\ phase = "resolved"
  /\ Len(returned) >= 2
  /\ N >= 3
  /\ handlers[1].ret = "void" /\ handlers[1].next = "await" /\ pc[1] = "done"
  /\ result = HandlerResponse(Last(returned))

\* C13: when executeHandlers has settled, every handler it started has
\* finished, and if a handler returns a Response and no exception ended the
\* chain, the call resolved with the Response of one of its handlers.
C13_ResolvesAfterAllFinished ==
  (execVariant \in ExecuteHandlersForms /\ Settled)
  => /\ \A i \in Frames : invoked[i] > 0 => pc[i] \in {"done", "thrown"}
     /\ (phase = "resolved" /\ ~ChainThrew /\ returned # <<>>)
        => \E k \in 1..Len(returned) : result = HandlerResponse(returned[k])

\* C14: whenever a handler of a request with a matched route has called an
\* ambient accessor, the accessor gave it the Context of that same request.
C14_AmbientScope ==
  \A r \in Requests :
    (routeMatched[r] /\ ambient[r] # NotCalled) => ambient[r] = r

\* C15: once match() has answered, every add() call fails with the
\* matcher-already-built error and changes nothing, and every match() call is
\* answered from the matchers built by the first one.
C15_SealedAfterMatch ==
  [][compiledMatchers =>
       (/\ compiledMatchers'
        /\ matcherCache' = matcherCache
        /\ addCalls' # addCalls => lastAdd' = "MatcherAlreadyBuilt"
        /\ matchCalls' # matchCalls =>
              lastMatch'.handlers = matchWith(matcherCache, lastMatch'.method, lastMatch'.path))]_vars

\* after a first match, an add() was refused and a later match() still
\* returned the handler registered before the first match
C15_Witness ==
  /\ matchCalls = 2
  /\ lastAdd = "MatcherAlreadyBuilt"
  /\ addCalls >= 2
  /\ lastMatch.handlers = <<1>>

\* ---- RouterAdapter.match
MatchRequests == RouterMethods \X RequestPaths

\* the node has a static child for the literal
StaticChild(store, at, seg) ==
  /\ at \in DOMAIN store
  /\ HasChild(store, at, seg)
  /\ store[Append(at, seg)].type = "static"

MatchedRoutePath(m) == addLog[m.data][2]

WildcardBound(m, segs) ==
  LET route == MatchedRoutePath(m)
      rest == SliceFrom(segs, Len(route))
  IN IF Last(route) # "*"
       THEN Has(m.params, slice1(Last(route))) /\ m.params[slice1(Last(route))] = rest
       ELSE \E k \in 0..3 : Has(m.params, IndexKey(k)) /\ m.params[IndexKey(k)] = rest

\* C17: when a request matches a route ending in a wildcard, the wildcard
\* parameter holds the whole remaining request path joined by "/", under the
\* wildcard's name if it is named and under a positional index if it is not
C17_WildcardBindsRemainder ==
  \A rq \in MatchRequests :
    LET m == match(rq[1], rq[2])
    IN (m.matched /\ isWildcard(Last(MatchedRoutePath(m)))) => WildcardBound(m, rq[2])

\* C18: for every matched route, each dynamic segment :x of that route's own
\* path is bound in params under the name x to the request segment at the
\* same position, also when another route names the segment differently
C18_OwnParamNames ==
  \A rq \in MatchRequests :
    LET m == match(rq[1], rq[2])
    IN m.matched =>
         LET route == MatchedRoutePath(m)
         IN \A i \in 1..Len(route) :
              isDynamic(route[i]) =>
                /\ i <= Len(rq[2])
                /\ Has(m.params, slice1(route[i]))
                /\ m.params[slice1(route[i])] = <<rq[2][i]>>

\* the number of the most recent addRoute() call for the pair
LatestRegistration(rq) ==
  CHOOSE k \in DOMAIN addLog :
    addLog[k] = rq /\ \A j \in DOMAIN addLog : addLog[j] = rq => j <= k

\* C19: after any sequence of registrations the registry (the routes getter)
\* holds at most one route per (method, path), and a match for a registered
\* pair returns the data of the most recent registration of that pair
C19_OneRoutePerMethodAndPath ==
  /\ \A i, j \in DOMAIN registry : registry[i] = registry[j] => i = j
  /\ \A rq \in MatchRequests :
       (\E k \in DOMAIN registry : registry[k] = rq) =>
         LET m == match(rq[1], rq[2])
         IN m.matched => m.data = LatestRegistration(rq)

\* the path goes on after a wildcard segment
PastWildcard(path) == \E i \in 1..(Len(path) - 1) : isWildcard(path[i])
\* a wildcard route is registered at a prefix of the path, and the path goes
\* on there with a segment that is not a wildcard
UnderWildcard(path) ==
  \E k \in DOMAIN registry :
    LET w == registry[k][2]
    IN /\ isWildcard(Last(w))
       /\ Len(w) <= Len(path)
       /\ SubSeq(path, 1, Len(w) - 1) = SubSeq(w, 1, Len(w) - 1)
       /\ ~isWildcard(path[Len(w)])
\* what the caller of match() gets
Outcome(m) == <<m.isNull, m.matched, m.data, m.params>>

\* C20: a registration that continues past a wildcard segment, or that is
\* added under a prefix where a wildcard is already registered, is ignored:
\* the result of match() is the same after it as before it, for every method
\* and path
C20_IgnoredRegistration ==
  [][(addLog' # addLog) =>
       LET route == Last(addLog')
       IN (PastWildcard(route[2]) \/ UnderWildcard(route[2])) =>
            \A rq \in MatchRequests :
              Outcome(matchIn(root', rq[1], rq[2])) = Outcome(matchIn(root, rq[1], rq[2]))]_vars

\* ---- middlewares of a match
Range(q) == {q[i] : i \in 1..Len(q)}
\* the middlewares attached to the nodes of the matched path, the root included
OnTrail(store, trail) ==
  UNION {Range(store[SubSeq(trail, 1, d)].middlewares) : d \in 0..Len(trail)}
\* the first node of the matched path, counted from the root, that holds x
FirstDepth(store, trail, x) ==
  CHOOSE d \in 0..Len(trail) :
    /\ x \in Range(store[SubSeq(trail, 1, d)].middlewares)
    /\ \A e \in 0..(d - 1) : x \notin Range(store[SubSeq(trail, 1, e)].middlewares)

\* C22: for every matched route the collected middlewares are those attached
\* along the matched path, ordered from the root to the leaf, and a middleware
\* attached at several nodes appears once, at its first position in that order
C22_RootToLeafOnce ==
  \A rq \in MatchRequests :
    LET m == match(rq[1], rq[2])
        c == m.middlewares
    IN m.matched =>
         /\ Range(c) = OnTrail(root, m.trail)
         /\ \A i, j \in 1..Len(c) : c[i] = c[j] => i = j
         /\ \A i, j \in 1..Len(c) :
              i < j => FirstDepth(root, m.trail, c[i]) <= FirstDepth(root, m.trail, c[j])

\* C24: after pushMiddlewares("*", ms), ms is among the middlewares that
\* match returns for every route, registered before the call or after it
C24_GlobalMiddleware ==
  \A k \in DOMAIN pushLog :
    pushLog[k].path = <<"*">> =>
      \A rq \in MatchRequests :
        LET m == match(rq[1], rq[2])
        IN m.matched => pushLog[k].mw \in Range(m.middlewares)

\* ---- the same calls given to a router of each type
EmptyRouter == [store |-> (<<>> :> SegmentNode("/", "static")), rts |-> <<>>]
\* the router of the type after the calls of addLog and pushLog, made in the
\* order they were made in: i is the next addRoute() call, j the next
\* pushMiddlewares() call
RECURSIVE Replay(_, _, _, _)
Replay(type, r, i, j) ==
  IF j <= Len(pushLog) /\ pushLog[j].after < i
    THEN Replay(type,
                [r EXCEPT !.store = pushMiddlewares(type, r.store, r.rts,
                                                    pushLog[j].path, <<pushLog[j].mw>>)],
                i, j + 1)
  ELSE IF i <= Len(addLog)
    THEN LET a == addRouteOf(type, r.store, addLog[i][1], addLog[i][2], i)
         IN Replay(type,
                   [store |-> a.store,
                    rts |-> IF a.kept THEN Append(r.rts, addLog[i]) ELSE r.rts],
                   i + 1, j)
  ELSE r
RouterOf(type) == Replay(type, EmptyRouter, 1, 1)

\* the replay of the calls is the router that received them
ReplayIsRouter ==
  LET r == RouterOf(routerType) IN r.store = root /\ r.rts = registry

\* the route's path matches the request path: literal segments are equal, a
\* dynamic segment stands for one segment, a final wildcard for the rest
PathMatches(route, segs) ==
  /\ Len(route) <= Len(segs)
  /\ isWildcard(Last(route)) \/ Len(route) = Len(segs)
  /\ \A i \in 1..Len(route) :
       \/ route[i] = segs[i]
       \/ isDynamic(route[i])
       \/ isWildcard(route[i]) /\ i = Len(route)
SomeRouteMatches(rq) ==
  \E k \in DOMAIN addLog : addLog[k][1] = rq[1] /\ PathMatches(addLog[k][2], rq[2])

\* the handlers and the middlewares of a match, as a multiset
SeqToBag(q) == [x \in Range(q) |-> Cardinality({i \in 1..Len(q) : q[i] = x})]
HandlerBag(m) ==
  IF m.matched THEN <<m.data, SeqToBag(m.middlewares)>> ELSE <<0, SeqToBag(<<>>)>>

\* C21: for every set of registered routes and every request that some route
\* matches, the matchers return the same handlers as multisets, the
\* collected middlewares included (here: the trie and the radix matcher)
C21_MatchersAgree ==
  \A rq \in MatchRequests :
    SomeRouteMatches(rq) =>
      HandlerBag(matchOf("TRIE", RouterOf("TRIE").store, rq[1], rq[2]))
        = HandlerBag(matchOf("RADIX", RouterOf("RADIX").store, rq[1], rq[2]))

\* ---- ServeX over the RegExpRouter
\* use(): `let path = "/"`, kept when the first argument is not a string
usePath == "/"
\* use() registers through addRoute("ALL", path, handler): the handlers that
\* a use() call bound are those added under ALL
BoundByUse(h) == h \in 1..Len(registered) /\ registered[h][1] = METHOD_NAME_ALL
\* every add() so far came before the first match(), so none was refused
AllAddsAccepted == addCalls = 0 \/ lastAdd = "ok"

\* executeHandlers on the list _dispatch gathers from the match: a handler
\* bound by use() is a middleware that logs, awaits next() and logs again; a
\* route handler logs and returns its Response, which ends the chain
RECURSIVE runTrace(_, _)
runTrace(list, i) ==
  IF i > Len(list) THEN <<>>
  ELSE IF BoundByUse(list[i])
    THEN <<<<"pre", list[i]>>>> \o runTrace(list, i + 1) \o <<<<"post", list[i]>>>>
    ELSE <<<<"h", list[i]>>>>

\* C23: with m1 bound by use at "/", then m2 bound by use at "/a/*", then h
\* registered for GET /a/x, a GET /a/x request runs m1-pre, m2-pre, h,
\* m2-post, m1-post
C23_NestedUseTrace ==
  (/\ registered = <<<<METHOD_NAME_ALL, "/">>, <<METHOD_NAME_ALL, "/a/*">>, <<"GET", "/a/x">>>>
   /\ AllAddsAccepted
   /\ matchCalls >= 1
   /\ lastMatch.method = "GET" /\ lastMatch.path = "/a/x")
  => runTrace(lastMatch.handlers, 1) =
       <<<<"pre", 1>>, <<"pre", 2>>, <<"h", 3>>, <<"post", 2>>, <<"post", 1>>>>

\* the position of handler h in the list, 0 if it is not there
PositionIn(list, h) ==
  IF \E i \in 1..Len(list) : list[i] = h
    THEN CHOOSE i \in 1..Len(list) : list[i] = h ELSE 0

\* C25: on a request that matches a registered route, every middleware that
\* use() bound without a path is in the handler list ahead of the route's
\* handlers, whether the route was registered before the use() call or after
C25_UseBeforeRouteHandlers ==
  (/\ AllAddsAccepted
   /\ matchCalls >= 1)
  => \A r \in 1..Len(registered) :
       (/\ ~BoundByUse(r)
        /\ registered[r] = <<lastMatch.method, lastMatch.path>>)
       => \A m \in 1..Len(registered) :
            registered[m] = <<METHOD_NAME_ALL, usePath>>
            => /\ PositionIn(lastMatch.handlers, m) # 0
               /\ PositionIn(lastMatch.handlers, m) < PositionIn(lastMatch.handlers, r)

\* ---- EventManager.emit
\* C26: an emit() calls every subscriber of the event, whatever the other
\* subscribers do, and resolves, so that fetch does not answer the request
\* that triggered it with the 500 Response
C26_EmitIsolatesFailures ==
  emitCalls > 0 =>
    /\ Len(lastEmit.invoked) = lastEmit.subs
    /\ lastEmit.settled = "resolved"
    /\ lastEmit.status # 500

\* ---- server:request across requests
\* the positions of the server:request events in the event log
RequestEvents == {i \in 1..Len(eventLog) : eventLog[i][1] = "server:request"}

\* C27: the server:request events are emitted in the order in which fetch
\* was called for their requests (request k is the k-th fetch call)
C27_RequestEventsInArrivalOrder ==
  \A i, j \in RequestEvents : i < j => eventLog[i][2] < eventLog[j][2]

\* ---- plugin failures and disposal
FailedPlugins == {k \in 1..NP : pluginPc[k] = "failed"}
InSeq(q, x) == \E i \in 1..Len(q) : q[i] = x

\* what holds of the plugins in every state, whichever of them failed
FailureIsolated ==
  /\ \A k \in FailedPlugins : InSeq(errorLog, k)
  /\ initPc \notin {"new", "invoke"} => \A k \in 1..NP : InSeq(initLog, k)
  /\ (HasBarrier /\ initPc = "done") => pluginResolved

\* the step that follows invokePlugins takes every request out of the queue
\* and schedules its dispatch
QueueDrained ==
  (initPc = "runAll" /\ initPc' # "runAll") =>
    /\ isEmpty(TheQueue)'
    /\ \A r \in Requests : reqPc[r] = "queued" => InSeq(ticks', r)

ReadyPlugins == SelectSeq([k \in 1..NP |-> k], LAMBDA k : pluginPc[k] = "ready")

\* C29: the dispose() call of the shutdown calls the disposer of every plugin
\* that initialized successfully, the last registered first
C29_DisposeInReverseOrder ==
  shutdown => disposed = disposeReversed(ReadyPlugins)

\* ---- Context response builders
\* C30: the Response a builder returns has, under every header name the
\* Context had accumulated through setHeaders and setCookie when the builder
\* was called, all the values accumulated under that name
C30_BuildersCarryHeaders ==
  built.builder # "none" =>
    \A k \in DOMAIN built.before :
      /\ Has(built.headers, k)
      /\ built.headers[k] = built.before[k]

\* ---- completeness of match
\* a route of the registry matches the request
SomeRegisteredRouteMatches(rq) ==
  \E k \in DOMAIN registry :
    registry[k][1] = rq[1] /\ PathMatches(registry[k][2], rq[2])

\* C38: if at least one route of the registry matches the method and the
\* path of a request, match() returns a matched route for it
C38_MatchIsComplete ==
  \A rq \in MatchRequests :
    SomeRegisteredRouteMatches(rq) => match(rq[1], rq[2]).matched

\* ---- routes() and the matcher nodes
\* the store has the node of the route, marked as the end of a route and
\* holding data for the route's method
HasRouteNode(store, route) ==
  /\ route[2] \in DOMAIN store
  /\ store[route[2]].isEndOfRoute
  /\ store[route[2]].data[route[1]] # 0

HasWildcardSegment(path) == \E i \in 1..Len(path) : isWildcard(path[i])

\* C39: in the trie matcher, the registration of a wildcard route leaves in
\* place the matcher node of every route that routes() lists, so that the
\* route can still be matched
C39_WildcardKeepsEarlierRoutes ==
  [][(routerType = "TRIE" /\ addLog' # addLog /\ HasWildcardSegment(Last(addLog')[2])) =>
       \A k \in DOMAIN registry :
         HasRouteNode(root, registry[k]) =>
           /\ \E j \in DOMAIN registry' : registry'[j] = registry[k]
           /\ HasRouteNode(root', registry[k])]_vars

\* ---- dynamic and unnamed wildcard children in the radix matcher
\* the registrations, so far, of the method with a path that ends, under the
\* parent, in a segment of the kind
EndsIn(kind(_), method, parent) ==
  {k \in DOMAIN addLog :
     /\ addLog[k][1] = method
     /\ Front(addLog[k][2]) = parent
     /\ kind(Last(addLog[k][2]))}
isUnnamedWildcard(seg) == seg = "*"

\* the parent has a child of the type whose data for the method is that of
\* the latest of the registrations ks
ChildHolds(store, parent, type, method, ks) ==
  \E i \in 1..Len(store[parent].children) :
    LET child == store[Append(parent, store[parent].children[i])]
    IN /\ child.type = type
       /\ child.data[method] \in ks
       /\ \A k \in ks : k <= child.data[method]

\* C40: in the radix matcher, when a dynamic route and an unnamed wildcard
\* route are registered under the same parent, the parent has a dynamic
\* child with the data of the dynamic route and a wildcard child with the
\* data of the wildcard route
C40_DynamicAndWildcardApart ==
  routerType = "RADIX" =>
    \A k \in DOMAIN addLog, j \in DOMAIN addLog :
      LET parent == Front(addLog[k][2])
      IN (/\ isDynamic(Last(addLog[k][2]))
          /\ addLog[j][2] = Append(parent, "*"))
         => /\ ChildHolds(root, parent, "dynamic", addLog[k][1],
                          EndsIn(isDynamic, addLog[k][1], parent))
            /\ ChildHolds(root, parent, "wildcard", addLog[j][1],
                          EndsIn(isUnnamedWildcard, addLog[j][1], parent))

\* ---- switchRouter
\* C32: a switchRouter() call that changes the underlying matcher leaves the
\* outcome of match() -- null or matched, the data and the params -- of
\* every (method, url) as it was before the call
C32_SwitchKeepsOutcomes ==
  [][(routerType' # routerType) =>
       \A rq \in MatchRequests :
         Outcome(matchOf(routerType', root', rq[1], rq[2])) = Outcome(match(rq[1], rq[2]))]_vars

\* ---- pre-blocks and post-blocks
\* the handlers whose code before next() has run, and those whose code
\* after next() has run; a handler that never calls next() has neither
PreBlocksRun ==
  {i \in Frames : handlers[i].next # "none" /\ \E x \in 1..Len(log) : log[x] = <<"pre", i>>}
PostBlocksRun ==
  {i \in Frames : \E x \in 1..Len(log) : log[x] = <<"post", i>>}
\* the call has resolved and no handler has thrown
CompletedWithoutException ==
  phase = "resolved" /\ \A i \in Frames : pc[i] # "thrown"

\* C34: when the handler chain has completed without an exception, as many
\* handlers have run their code after next() as have run their code before
\* next()
C34_PreEqualsPost ==
  CompletedWithoutException => Cardinality(PreBlocksRun) = Cardinality(PostBlocksRun)

\* ---- fetch settles
\* C35: the promise of every fetch call is eventually resolved with a
\* Response, whatever the request's handler chain does and whether or not
\* the request went through the plugin-barrier queue
C35_FetchResolves ==
  \A r \in Requests : (reqPc[r] # "idle") ~> (fetchOut[r].kind = "resolved")

\* ---- the plugin-barrier queue is emptied
\* the number of times _dispatch was started for the request
Dispatches(r) == Cardinality({i \in 1..Len(dispatchLog) : dispatchLog[i] = r})

\* C36: every request that was put in the plugin-barrier queue is
\* eventually dispatched, and no request is dispatched more than once
C36_QueuedIsDispatchedOnce ==
  /\ [](\A r \in Requests : Dispatches(r) <= 1)
  /\ \A r \in Requests : viaQueue[r] ~> (Dispatches(r) = 1)

\* ---- the matcher is not sealed during onInit
\* C37: while the onInit of a plugin is running no match() call has sealed
\* the regexp matcher, and no route registration made inside an onInit has
\* failed with the matcher-already-built error
C37_NotSealedDuringOnInit ==
  /\ (\E k \in 1..NP : OnInitRunning(k)) => ~compiledMatchers
  /\ lastAdd # "MatcherAlreadyBuilt"

\* ---- the body accessors
BodyCallsSettled == {i \in DOMAIN bodyCalls : bodyCalls[i].pc # "reading"}

\* C31: the body of the request is read at most once, and all the calls of
\* one accessor that have settled have returned the same value
C31_BodyReadOnceSameValue ==
  /\ bodyReads <= 1
  /\ \A i \in BodyCallsSettled, j \in BodyCallsSettled :
       bodyCalls[i].accessor = bodyCalls[j].accessor =>
         /\ bodyCalls[i].pc = "done"
         /\ bodyCalls[i].value = bodyCalls[j].value

\* ---- the cors middleware on OPTIONS
\* C33: on an OPTIONS request the cors middleware of any options has, when
\* it has run, returned a Response of status 204 and not called next()
C33_OptionsGets204 ==
  (corsReq.method = "OPTIONS" /\ corsOut # CorsNotCalled) =>
    /\ corsOut.kind = "Response"
    /\ corsOut.status = 204
    /\ ~corsOut.next

====
